---- MODULE Spec2Model ----
(***************************************************************************)
(* A model of the video pipeline core: the sink base (bounded queue,       *)
(* worker thread, submit path, lifecycle), the source base's EmitFrame,    *)
(* the frame reference counts, and the lifecycle of the concrete sources.  *)
(***************************************************************************)
EXTENDS Integers, Sequences, FiniteSets, TLC

\* ------------------------------------------------------------------ bounds
\* Frames the producer emits in one behaviour.
MaxFrames == 3

\* Heap frames created in one behaviour, shared handles per frame, the
\* largest intrusive count AddRef is called at, reclaims followed per frame.
MaxHeapFrames == 2
MaxHandles == 2
MaxRefs == 2
MaxFrees == 2

\* Blocks of a pipeline configuration.
MaxBlocks == 3

\* Frame dimensions.
MaxWidth == 3
MaxHeight == 2

\* Tasks submitted to a ThreadPool, and its worker threads.
MaxTasks == 3
MaxWorkers == 2

\* Frames a TestPatternSource emits in one behaviour.
MaxEmits == 2

\* SetError calls in one behaviour.
MaxErrors == 3

\* Block type names, and changes made to the registry in one behaviour.
MaxTypes == 2
MaxRegOps == 3

\* Frames queued in the sink whose statistics are read.
MaxQueued == 2

\* -------------------------------------------------------- program constants
\* BaseVideoSink::SetMaxQueueDepth rejects depth == 0 and depth > 1000.
MaxDepthLimit == 1000
\* max_queue_depth_{10}
DefaultQueueDepth == 10

\* Depths handed to SetMaxQueueDepth / the queue_depth parameter: the two
\* rejected boundary values and two small accepted ones.
DepthInputs == {0, 1, 2, MaxDepthLimit + 1}

BlockStates == {"UNINITIALIZED", "INITIALIZED", "STARTING", "RUNNING",
                "STOPPING", "STOPPED", "ERROR"}

FrameIds == 1..MaxFrames

HeapIds == 1..MaxHeapFrames

\* Block names; std::map iterates them in increasing order.
BlockNames == 1..MaxBlocks

\* What a block of the pipeline casts to: IVideoSource, IVideoSink, neither.
BlockKinds == {"source", "sink", "other"}

\* Type names (std::map keeps them in increasing order), the factories
\* that are registered, and two threads that call the registry.
TypeNames == 1..MaxTypes
FactoryIds == {"A", "B"}
RegThreads == {"thread_a", "thread_b"}

\* The threads that report errors on a sink, the control thread and the
\* sink's worker thread, and the messages they report.
CbThreads == {"control", "worker"}
CbMessages == {"depth", "start", "connect"}

\* enum class PixelFormat without UNKNOWN, and a default FrameInfo.
PixelFormats == {"RGB24", "BGR24", "RGBA32", "BGRA32", "YUV420P", "NV12",
                 "NV21", "YUYV", "UYVY"}
NoFrameInfo == [format |-> "UNKNOWN", width |-> 0, height |-> 0]

\* The tasks and the worker threads of a ThreadPool.
TaskIds == 1..MaxTasks
PoolWorkers == 1..MaxWorkers

NoResult == [op |-> "none", type |-> 0, value |-> "", types |-> <<>>]

\* The threads that touch a sink's statistics: the submitter inside
\* ProcessFrame, the sink's worker, and a thread calling the accessors.
StatsThreads == {"sub", "worker", "reader"}

\* The source classes: the base class by itself and the two that derive
\* from it.
SourceKinds == {"BaseVideoSource", "TestPatternSource", "LibcameraSource"}

NoHeapFrame == [created |-> FALSE, use |-> 0, ref |-> 0, freed |-> 0]

VARIABLES
    \* ---- BaseBlock / BaseVideoSink fields
    state,            \* std::atomic<BlockState> state_
    last_error,       \* last_error_: "" or "error" (some message)
    frame_queue,      \* std::queue<VideoFramePtr> frame_queue_ (frame ids)
    max_queue_depth,  \* max_queue_depth_
    is_blocking,      \* is_blocking_
    stop_worker,      \* std::atomic<bool> stop_worker_
    queue_mutex,      \* owner of queue_mutex_: "free", "worker", "sub"
    worker_thread,    \* worker_thread_.joinable()
    sink_processed,   \* stats_.frames_processed of the sink
    sink_dropped,     \* stats_.frames_dropped of the sink
    \* ---- the worker thread (BaseVideoSink::WorkerThread)
    worker_pc,
    worker_frame,     \* the local VideoFramePtr frame (0: null)
    \* ---- the producer thread (BaseVideoSource::EmitFrame -> ProcessFrame)
    sub_pc,
    sub_frame,        \* the frame being emitted (0: none)
    sub_ret,          \* what the ProcessFrame call in progress returns
    next_id,          \* next frame to be created
    src_processed,    \* stats_.frames_processed of the source
    src_dropped,      \* stats_.frames_dropped of the source
    \* ---- the control thread (Initialize/Start/Stop/Shutdown/setters)
    ctl_pc,
    ctl_op,           \* the call in progress, or the last one made
    ctl_ret,          \* what it returned ("pending": in progress)
    \* ---- frames: shared_ptr use count, intrusive count, recycler calls
    frames,
    \* ---- observation
    accepted,         \* ProcessFrame calls that returned true
    delivered_last,   \* last frame handed to ProcessFrameImpl (0: none)
    terminated,       \* std::terminate was called
    \* ---- heap frames (SimpleBuffer objects made by CreateVideoFrame)
    heap,             \* per frame: created, use, ref, freed
    heap_crashed,     \* undefined behaviour ended the process
    \* ---- the video sources and the thread that drives their lifecycle
    blk_state,        \* BaseBlock::state_ of each source
    blk_error,        \* BaseBlock::last_error_ of each source: "" or "error"
    stop_generator_,  \* TestPatternSource::stop_generator_
    generator_thread_, \* TestPatternSource::generator_thread_ is joinable
    gen_pc,           \* where the generator thread is
    camera_,          \* LibcameraSource::camera_ is not null
    stream_,          \* LibcameraSource::stream_ is not null
    running_,         \* LibcameraSource::running_
    life_pc,          \* where the thread calling the sources is
    life_op,          \* <<source, call>> in progress, or the last one made
    life_pre,         \* state of that source when the call was made
    life_ret,         \* "pending", or what the call returned
    life_terminated,  \* std::terminate was called
    \* ---- PipelineManager and the blocks it owns
    config_,          \* PipelineManager::config_.blocks: the kind of each block
    blocks_,          \* PipelineManager::blocks_: kind of each block in the map
    pblk_state,       \* state of each block of the pipeline
    is_running_,      \* PipelineManager::is_running_
    pm_last_error,    \* PipelineManager::last_error_: <<>> or <<what, block>>
    pm_pc,            \* where the thread calling the manager is
    pm_op,            \* manager call in progress, or the last one made
    pm_ret,           \* "pending", or what the call returned
    pm_todo,          \* blocks the loop in progress has still to visit
    pm_calls,         \* blocks the loop in progress has called so far
    \* ---- BlockRegistry and the threads calling it
    factories_,       \* BlockRegistry::factories_: <<type, factory>> by type
    reg_mutex,        \* BlockRegistry::mutex_: "free", or the owning thread
    reg_pc,           \* where each thread is
    reg_arg,          \* <<type, factory>> of the CreateBlock in progress
    reg_result,       \* what the registry call that returned last returned
    reg_history,      \* the changes made to the registry, in order
    \* ---- BaseBlock::SetError on a TcpSink, and its error callback
    cb_state,         \* BaseBlock::state_
    cb_last_error,    \* BaseBlock::last_error_
    cb_worker,        \* whether the sink's worker thread is running
    cb_pc,            \* where each thread is inside SetError
    cb_error,         \* the `error` argument of each thread's SetError call
    cb_started,       \* per message, the SetError calls made
    cb_invoked,       \* per message, the error_callback_ invocations
    \* ---- the TestPatternSource's frames
    tp_frames_processed,  \* stats_.frames_processed of the source
    tp_sequence,      \* sequence_number of the frame delivered last since
                      \* the last Start, 0 before the first
    \* ---- ThreadPool
    stop_,            \* ThreadPool::stop_
    tasks_,           \* ThreadPool::tasks_
    pool_pc,          \* where each worker thread is
    pool_task,        \* the task each worker has taken
    pool_runs,        \* how often each task has run to completion
    pool_next,        \* the id the next accepted task gets
    submit_pc,        \* where the submitting thread is
    submit_ret,       \* what the last Submit did
    shutdown_pc,      \* where the thread in Shutdown is
    wait_pc,          \* where the thread in WaitForAll is
    \* ---- a SimpleBuffer frame and its clone
    frame_info_,      \* FrameInfo of the original: format, width, height
    clone_info,       \* FrameInfo of the clone
    clone_data,       \* the bytes of the clone's data_
    copy_pc,          \* "frame", then "cloned", then "copied"
    copy_ret,         \* what the last CopyFrom returned
    \* ---- a sink's statistics and the locks its threads hold
    mutex_,           \* BaseBlock::mutex_: "free", or the owning thread
    st_queue_mutex,   \* queue_mutex_ of that sink: "free", or the owner
    st_pc,            \* the statement each thread is executing
    st_queue_size,    \* frame_queue_.size()
    st_queue_depth,   \* stats_.queue_depth
    st_copy,          \* queue_depth in the copy GetStats returned last
    \* ---- observation of the sink's Initialize
    init_error        \* SetError was called by the Initialize in progress

sinkVars == <<state, last_error, frame_queue, max_queue_depth, is_blocking,
              stop_worker, queue_mutex, worker_thread, sink_processed,
              sink_dropped>>
workerVars == <<worker_pc, worker_frame>>
subVars == <<sub_pc, sub_frame, sub_ret, next_id, src_processed, src_dropped>>
ctlVars == <<ctl_pc, ctl_op, ctl_ret>>
obsVars == <<accepted, delivered_last, terminated>>

sinkAllVars == <<sinkVars, workerVars, subVars, ctlVars, frames, obsVars>>
heapVars == <<heap, heap_crashed>>

\* What the actions of one part leave unchanged: the other parts.
lifeVars == <<blk_state, blk_error, stop_generator_, generator_thread_,
              gen_pc, camera_, stream_, running_, life_pc, life_op, life_pre,
              life_ret, life_terminated>>
pipeVars == <<config_, blocks_, pblk_state, is_running_, pm_last_error,
              pm_pc, pm_op, pm_ret, pm_todo, pm_calls>>
regVars == <<factories_, reg_mutex, reg_pc, reg_arg, reg_result,
             reg_history>>
seqVars == <<tp_frames_processed, tp_sequence>>
bufVars == <<frame_info_, clone_info, clone_data, copy_pc, copy_ret>>
poolVars == <<stop_, tasks_, pool_pc, pool_task, pool_runs, pool_next,
              submit_pc, submit_ret, shutdown_pc, wait_pc>>
statsVars == <<mutex_, st_queue_mutex, st_pc, st_queue_size, st_queue_depth,
               st_copy>>
initVars == <<init_error>>
cbVars == <<cb_state, cb_last_error, cb_worker, cb_pc, cb_error,
            cb_started, cb_invoked>>
nonSinkVars == <<seqVars, poolVars, bufVars, heapVars, lifeVars, pipeVars, regVars, cbVars, statsVars, initVars>>
nonSinkInitVars == <<seqVars, poolVars, bufVars, heapVars, lifeVars, pipeVars, regVars, cbVars, statsVars>>
nonHeapVars == <<seqVars, poolVars, bufVars, sinkAllVars, lifeVars, pipeVars, regVars, cbVars, statsVars, initVars>>
nonLifeVars == <<poolVars, bufVars, sinkAllVars, heapVars, pipeVars, regVars, cbVars, seqVars, statsVars, initVars>>
nonLifeSeqVars == <<poolVars, bufVars, sinkAllVars, heapVars, pipeVars, regVars, cbVars, statsVars, initVars>>
nonPipeVars == <<seqVars, poolVars, bufVars, sinkAllVars, heapVars, lifeVars, regVars, cbVars, statsVars, initVars>>
nonRegVars == <<seqVars, poolVars, bufVars, sinkAllVars, heapVars, lifeVars, pipeVars, cbVars, statsVars, initVars>>
nonCbVars == <<seqVars, poolVars, bufVars, sinkAllVars, heapVars, lifeVars, pipeVars, regVars, statsVars, initVars>>

nonPoolVars == <<sinkAllVars, heapVars, lifeVars, pipeVars, regVars, cbVars,
                 seqVars, bufVars, statsVars, initVars>>
nonBufVars == <<sinkAllVars, heapVars, lifeVars, pipeVars, regVars, cbVars,
                seqVars, poolVars, statsVars, initVars>>
nonStatsVars == <<sinkAllVars, heapVars, lifeVars, pipeVars, regVars, cbVars,
                  seqVars, poolVars, bufVars, initVars>>

vars == <<sinkAllVars, heapVars, lifeVars, pipeVars, regVars, cbVars, seqVars,
          poolVars, bufVars, statsVars, initVars>>

\* ------------------------------------------------------------------ frames
Range(s) == {s[i] : i \in 1..Len(s)}

NoFrame == [seq |-> 0, use |-> 0, ref |-> 0, recycled |-> 0, deleted |-> FALSE]

\* new LibcameraFrame(...) wrapped in a VideoFramePtr whose deleter calls
\* Release(): ref_count_{1}, one shared handle.
WrapFrame(seq) ==
    [seq |-> seq, use |-> 1, ref |-> 1, recycled |-> 0, deleted |-> FALSE]

\* std::atomic<uint32_t> arithmetic.  A count is kept as the integer of
\* -2^31 .. 2^31 - 1 congruent to it modulo 2^32, so that 0 - 1 = -1 stands
\* for 2^32 - 1 and the largest pattern wraps to the smallest.
Int32Min == -2147483647 - 1
Int32Max == 2147483647
FetchAdd(n) == IF n = Int32Max THEN Int32Min ELSE n + 1
FetchSub(n) == IF n = Int32Min THEN Int32Max ELSE n - 1

\* The variant of Release that tests the value after the decrement
\* against 1, as if fetch_sub returned the new value.
ReleaseFrameNewValue(fr) ==
    IF FetchSub(fr.ref) = 1
    THEN [fr EXCEPT !.ref = FetchSub(@), !.recycled = @ + 1, !.deleted = TRUE]
    ELSE [fr EXCEPT !.ref = FetchSub(@)]

\* LibcameraFrame::Release: fetch_sub(1) == 1 -> RecycleRequest; delete this.
ReleaseFrame(fr) ==
    IF fr.ref = 1
    THEN [fr EXCEPT !.ref = FetchSub(@), !.recycled = @ + 1, !.deleted = TRUE]
    ELSE [fr EXCEPT !.ref = FetchSub(@)]

\* Copying a VideoFramePtr.
CopyHandle(fr) == [fr EXCEPT !.use = @ + 1]

\* Destroying a VideoFramePtr: the last one runs the deleter.
DropHandle(fr) ==
    IF fr.use = 1
    THEN ReleaseFrame([fr EXCEPT !.use = 0])
    ELSE [fr EXCEPT !.use = @ - 1]

\* ------------------------------------------------------------- BaseBlock
\* BaseBlock::SetError: last_error_ = error; SetState(ERROR); callback.
\* Every message is non-empty; the model keeps only that.
SetError(msg) ==
    /\ last_error' = "error"
    /\ state' = "ERROR"

\* ---------------------------------------------------------------- Init
SinkInit ==
    /\ state = "UNINITIALIZED"
    /\ last_error = ""
    /\ frame_queue = <<>>
    /\ max_queue_depth = DefaultQueueDepth
    /\ is_blocking = TRUE
    /\ stop_worker = FALSE
    /\ queue_mutex = "free"
    /\ worker_thread = FALSE
    /\ sink_processed = 0
    /\ sink_dropped = 0
    /\ worker_pc = "none"
    /\ worker_frame = 0
    /\ sub_pc = "idle"
    /\ sub_frame = 0
    /\ sub_ret = "none"
    /\ next_id = 1
    /\ src_processed = 0
    /\ src_dropped = 0
    /\ ctl_pc = "idle"
    /\ ctl_op = "none"
    /\ ctl_ret = "none"
    /\ frames = [f \in FrameIds |-> NoFrame]
    /\ accepted = 0
    /\ delivered_last = 0
    /\ terminated = FALSE
    /\ init_error = FALSE

\* No heap frame exists yet.
HeapInit ==
    /\ heap = [h \in HeapIds |-> NoHeapFrame]
    /\ heap_crashed = FALSE

\* Every source is constructed Uninitialized, with no thread and no camera.
LifeInit ==
    /\ blk_state = [k \in SourceKinds |-> "UNINITIALIZED"]
    /\ blk_error = [k \in SourceKinds |-> ""]
    /\ stop_generator_ = FALSE
    /\ generator_thread_ = FALSE
    /\ gen_pc = "none"
    /\ camera_ = FALSE
    /\ stream_ = FALSE
    /\ running_ = FALSE
    /\ life_pc = "idle"
    /\ life_op = <<>>
    /\ life_pre = "UNINITIALIZED"
    /\ life_ret = "none"
    /\ life_terminated = FALSE
    /\ tp_frames_processed = 0
    /\ tp_sequence = 0

\* A PipelineManager just constructed: no block, not running.
PipeInit ==
    /\ config_ = [b \in BlockNames |-> "absent"]
    /\ blocks_ = [b \in BlockNames |-> "absent"]
    /\ pblk_state = [b \in BlockNames |-> "UNINITIALIZED"]
    /\ is_running_ = FALSE
    /\ pm_last_error = <<>>
    /\ pm_pc = "idle"
    /\ pm_op = "none"
    /\ pm_ret = "none"
    /\ pm_todo = <<>>
    /\ pm_calls = <<>>

\* An empty registry that nobody is calling.
RegInit ==
    /\ factories_ = <<>>
    /\ reg_mutex = "free"
    /\ reg_pc = [t \in RegThreads |-> "idle"]
    /\ reg_arg = [t \in RegThreads |-> <<>>]
    /\ reg_result = NoResult
    /\ reg_history = <<>>

\* A TcpSink after construction; nothing has failed yet.
CbInit ==
    /\ cb_state = "UNINITIALIZED"
    /\ cb_last_error = ""
    /\ cb_worker = FALSE
    /\ cb_pc = [t \in CbThreads |-> "idle"]
    /\ cb_error = [t \in CbThreads |-> ""]
    /\ cb_started = [m \in CbMessages |-> 0]
    /\ cb_invoked = [m \in CbMessages |-> 0]

\* ThreadPool::ThreadPool: the workers are started, nothing is queued.
PoolInit ==
    /\ stop_ = FALSE
    /\ tasks_ = <<>>
    /\ pool_pc = [w \in PoolWorkers |-> "top"]
    /\ pool_task = [w \in PoolWorkers |-> 0]
    /\ pool_runs = [k \in TaskIds |-> 0]
    /\ pool_next = 1
    /\ submit_pc = "idle"
    /\ submit_ret = "none"
    /\ shutdown_pc = "idle"
    /\ wait_pc = "idle"

\* The frame that Clone and CopyFrom are applied to under BufSpec, of any
\* supported format and any size within the bounds.
AnyFrame ==
    /\ frame_info_ \in [format : PixelFormats, width : 1..MaxWidth,
                        height : 1..MaxHeight]
    /\ clone_info = NoFrameInfo
    /\ clone_data = <<>>
    /\ copy_pc = "frame"
    /\ copy_ret = "none"

\* Under the other specifications the frame is one RGB24 pixel.
BufInit ==
    /\ AnyFrame
    /\ frame_info_ = [format |-> "RGB24", width |-> 1, height |-> 1]

\* A sink that is running with an empty queue; no thread is inside a call.
StatsInit ==
    /\ mutex_ = "free"
    /\ st_queue_mutex = "free"
    /\ st_pc = [t \in StatsThreads |-> "idle"]
    /\ st_queue_size = 0
    /\ st_queue_depth = 0
    /\ st_copy = 0

Init ==
    /\ SinkInit /\ HeapInit /\ LifeInit /\ PipeInit /\ RegInit /\ CbInit
    /\ PoolInit /\ BufInit /\ StatsInit

\* ------------------------------------------------- condition variables
\* queue_condition_.notify_one/notify_all: the worker is its only waiter.
NotifyWorker(pc) == IF pc = "w_blocked" THEN "w_woken" ELSE pc

\* queue_not_full_condition_.notify_one/notify_all: the producer is its
\* only waiter.
NotifySub(pc) == IF pc = "pf_blocked" THEN "pf_woken" ELSE pc

\* ------------------------------------------- BaseVideoSource::EmitFrame
\* The rate gate (ShouldEmitFrame) rejects the frame: it is counted as
\* dropped and the caller's handle, the only one, goes away.
EmitGateReject ==
    /\ ~terminated
    /\ sub_pc = "idle"
    /\ next_id <= MaxFrames
    /\ src_dropped' = src_dropped + 1
    /\ frames' = [frames EXCEPT ![next_id] = DropHandle(WrapFrame(0))]
    /\ next_id' = next_id + 1
    /\ UNCHANGED <<sinkVars, workerVars, ctlVars, obsVars,
                   sub_pc, sub_frame, sub_ret, src_processed>>
    /\ UNCHANGED nonSinkVars

\* The variant of the stamp that numbers the frames from zero.
EmitStampFromZero ==
    /\ ~terminated
    /\ sub_pc = "idle"
    /\ next_id <= MaxFrames
    /\ frames' = [frames EXCEPT ![next_id] = WrapFrame(src_processed)]
    /\ sub_frame' = next_id
    /\ next_id' = next_id + 1
    /\ sub_pc' = "pf_state"
    /\ sub_ret' = "pending"
    /\ UNCHANGED <<sinkVars, workerVars, ctlVars, obsVars,
                   src_processed, src_dropped>>
    /\ UNCHANGED nonSinkVars

\* The gate passes: the frame is stamped with frames_processed + 1 and the
\* delivery callback (sink->ProcessFrame) is entered.
EmitStamp ==
    /\ ~terminated
    /\ sub_pc = "idle"
    /\ next_id <= MaxFrames
    /\ frames' = [frames EXCEPT ![next_id] = WrapFrame(src_processed + 1)]
    /\ sub_frame' = next_id
    /\ next_id' = next_id + 1
    /\ sub_pc' = "pf_state"
    /\ sub_ret' = "pending"
    /\ UNCHANGED <<sinkVars, workerVars, ctlVars, obsVars,
                   src_processed, src_dropped>>
    /\ UNCHANGED nonSinkVars

\* The callback has returned (it discards what ProcessFrame returned):
\* UpdateStats(true, ...) and the producer's handle is destroyed.
EmitReturn ==
    /\ ~terminated
    /\ sub_pc = "emit_ret"
    /\ src_processed' = src_processed + 1
    /\ frames' = [frames EXCEPT ![sub_frame] = DropHandle(@)]
    /\ sub_frame' = 0
    /\ sub_pc' = "idle"
    /\ sub_ret' = "none"
    /\ UNCHANGED <<sinkVars, workerVars, ctlVars, obsVars,
                   next_id, src_dropped>>
    /\ UNCHANGED nonSinkVars

\* BaseBlock::ResetStats on the source, from any other thread.
SourceResetStats ==
    /\ ~terminated
    /\ src_processed' = 0
    /\ src_dropped' = 0
    /\ UNCHANGED <<sinkVars, workerVars, ctlVars, obsVars, frames,
                   sub_pc, sub_frame, sub_ret, next_id>>
    /\ UNCHANGED nonSinkVars

\* ----------------------------------------- BaseVideoSink::ProcessFrame
\* if (GetState() != RUNNING) return false;
PFCheckState ==
    /\ ~terminated
    /\ sub_pc = "pf_state"
    /\ IF state /= "RUNNING"
       THEN sub_pc' = "emit_ret" /\ sub_ret' = "false"
       ELSE sub_pc' = "pf_lock" /\ sub_ret' = sub_ret
    /\ UNCHANGED <<sinkVars, workerVars, ctlVars, obsVars, frames,
                   sub_frame, next_id, src_processed, src_dropped>>
    /\ UNCHANGED nonSinkVars

\* The variant of the push that puts the new frame at the head.
PushFrameAtHead ==
    /\ frame_queue' = <<sub_frame>> \o frame_queue
    /\ frames' = [frames EXCEPT ![sub_frame] = CopyHandle(@)]
    /\ worker_pc' = NotifyWorker(worker_pc)
    /\ accepted' = accepted + 1
    /\ sub_ret' = "true"
    /\ sub_pc' = "emit_ret"
    /\ queue_mutex' = "free"
    /\ sink_dropped' = sink_dropped

\* frame_queue_.push(frame); notify_one(); return true;  (lock released)
PushFrame ==
    /\ frame_queue' = Append(frame_queue, sub_frame)
    /\ frames' = [frames EXCEPT ![sub_frame] = CopyHandle(@)]
    /\ worker_pc' = NotifyWorker(worker_pc)
    /\ accepted' = accepted + 1
    /\ sub_ret' = "true"
    /\ sub_pc' = "emit_ret"
    /\ queue_mutex' = "free"
    /\ sink_dropped' = sink_dropped

\* The variant of the drop that removes the newest queued frame.
DropNewestAndPush ==
    /\ frame_queue' = Append(SubSeq(frame_queue, 1, Len(frame_queue) - 1),
                             sub_frame)
    /\ frames' = [frames EXCEPT ![frame_queue[Len(frame_queue)]] = DropHandle(@),
                                ![sub_frame] = CopyHandle(@)]
    /\ sink_dropped' = sink_dropped + 1
    /\ worker_pc' = NotifyWorker(worker_pc)
    /\ accepted' = accepted + 1
    /\ sub_ret' = "true"
    /\ sub_pc' = "emit_ret"
    /\ queue_mutex' = "free"

\* Non-blocking and full: pop the oldest, count it dropped, then push.
DropOldestAndPush ==
    /\ frame_queue' = Append(Tail(frame_queue), sub_frame)
    /\ frames' = [frames EXCEPT ![Head(frame_queue)] = DropHandle(@),
                                ![sub_frame] = CopyHandle(@)]
    /\ sink_dropped' = sink_dropped + 1
    /\ worker_pc' = NotifyWorker(worker_pc)
    /\ accepted' = accepted + 1
    /\ sub_ret' = "true"
    /\ sub_pc' = "emit_ret"
    /\ queue_mutex' = "free"

\* queue_not_full_condition_.wait(lock, pred) with the lock held: either
\* the predicate holds (then: stop -> return false, else push), or the
\* thread is about to block, still holding the lock.
PFWait ==
    IF Len(frame_queue) < max_queue_depth \/ stop_worker
    THEN IF stop_worker
         THEN /\ sub_ret' = "false"
              /\ sub_pc' = "emit_ret"
              /\ queue_mutex' = "free"
              /\ UNCHANGED <<frame_queue, frames, worker_pc, accepted,
                             sink_dropped>>
         ELSE PushFrame
    ELSE /\ sub_pc' = "pf_pre_block"
         /\ queue_mutex' = "sub"
         /\ UNCHANGED <<frame_queue, frames, worker_pc, accepted,
                        sink_dropped, sub_ret>>

\* std::unique_lock lock(queue_mutex_) and what follows under the lock.
PFLock ==
    /\ ~terminated
    /\ sub_pc = "pf_lock"
    /\ queue_mutex = "free"
    /\ IF Len(frame_queue) >= max_queue_depth
       THEN IF ~is_blocking THEN DropOldestAndPush ELSE PFWait
       ELSE PushFrame
    /\ UNCHANGED <<state, last_error, max_queue_depth, is_blocking,
                   stop_worker, worker_thread, sink_processed, worker_frame,
                   sub_frame, next_id, src_processed, src_dropped, ctlVars,
                   delivered_last, terminated>>
    /\ UNCHANGED nonSinkVars

\* The wait releases the lock and blocks.
PFBlock ==
    /\ ~terminated
    /\ sub_pc = "pf_pre_block"
    /\ sub_pc' = "pf_blocked"
    /\ queue_mutex' = "free"
    /\ UNCHANGED <<state, last_error, frame_queue, max_queue_depth,
                   is_blocking, stop_worker, worker_thread, sink_processed,
                   sink_dropped, workerVars, sub_frame, sub_ret, next_id,
                   src_processed, src_dropped, ctlVars, frames, obsVars>>
    /\ UNCHANGED nonSinkVars

\* Notified: reacquire the lock and evaluate the predicate again.
PFWake ==
    /\ ~terminated
    /\ sub_pc = "pf_woken"
    /\ queue_mutex = "free"
    /\ PFWait
    /\ UNCHANGED <<state, last_error, max_queue_depth, is_blocking,
                   stop_worker, worker_thread, sink_processed, worker_frame,
                   sub_frame, next_id, src_processed, src_dropped, ctlVars,
                   delivered_last, terminated>>
    /\ UNCHANGED nonSinkVars

\* ----------------------------------------- BaseVideoSink::WorkerThread
\* while (!stop_worker_.load())
WLoop ==
    /\ ~terminated
    /\ worker_pc = "w_loop"
    /\ worker_pc' = IF stop_worker THEN "w_exited" ELSE "w_lock"
    /\ UNCHANGED <<sinkVars, worker_frame, subVars, ctlVars, frames, obsVars>>
    /\ UNCHANGED nonSinkVars

\* queue_condition_.wait(lock, pred) with the lock held, and, when the
\* predicate holds, the rest of the locked block: break on stop with an
\* empty queue, else take the front frame and notify not_full.
WWait ==
    IF ~(frame_queue /= <<>> \/ stop_worker)
    THEN /\ worker_pc' = "w_pre_block"
         /\ queue_mutex' = "worker"
         /\ UNCHANGED <<frame_queue, frames, sub_pc, worker_frame,
                        delivered_last>>
    ELSE IF stop_worker /\ frame_queue = <<>>
         THEN /\ worker_pc' = "w_exited"
              /\ queue_mutex' = "free"
              /\ UNCHANGED <<frame_queue, frames, sub_pc, worker_frame,
                             delivered_last>>
         ELSE /\ worker_frame' = Head(frame_queue)
              /\ frame_queue' = Tail(frame_queue)
              /\ frames' = [frames EXCEPT
                               ![Head(frame_queue)] = DropHandle(CopyHandle(@))]
              /\ sub_pc' = NotifySub(sub_pc)
              /\ delivered_last' = Head(frame_queue)
              /\ worker_pc' = "w_process"
              /\ queue_mutex' = "free"

WLock ==
    /\ ~terminated
    /\ worker_pc = "w_lock"
    /\ queue_mutex = "free"
    /\ WWait
    /\ UNCHANGED <<state, last_error, max_queue_depth, is_blocking,
                   stop_worker, worker_thread, sink_processed, sink_dropped,
                   sub_frame, sub_ret, next_id, src_processed, src_dropped,
                   ctlVars, accepted, terminated>>
    /\ UNCHANGED nonSinkVars

WBlock ==
    /\ ~terminated
    /\ worker_pc = "w_pre_block"
    /\ worker_pc' = "w_blocked"
    /\ queue_mutex' = "free"
    /\ UNCHANGED <<state, last_error, frame_queue, max_queue_depth,
                   is_blocking, stop_worker, worker_thread, sink_processed,
                   sink_dropped, worker_frame, subVars, ctlVars, frames,
                   obsVars>>
    /\ UNCHANGED nonSinkVars

WWake ==
    /\ ~terminated
    /\ worker_pc = "w_woken"
    /\ queue_mutex = "free"
    /\ WWait
    /\ UNCHANGED <<state, last_error, max_queue_depth, is_blocking,
                   stop_worker, worker_thread, sink_processed, sink_dropped,
                   sub_frame, sub_ret, next_id, src_processed, src_dropped,
                   ctlVars, accepted, terminated>>
    /\ UNCHANGED nonSinkVars

\* What one ProcessFrameImpl call can do: return true, return false, throw
\* a std::exception, or (TcpSink::Connect, FileSink's open) call SetError
\* and return false.
HookOutcomes == {"ok", "fail", "throw", "seterror"}

\* ProcessFrameImpl(frame) returns; UpdateStats; the local frame handle is
\* destroyed at the end of the iteration.
WProcess(outcome) ==
    /\ ~terminated
    /\ worker_pc = "w_process"
    /\ sink_processed' = IF outcome = "ok" THEN sink_processed + 1
                         ELSE sink_processed
    /\ sink_dropped' = IF outcome = "ok" THEN sink_dropped
                       ELSE sink_dropped + 1
    /\ IF outcome = "seterror"
       THEN SetError("process")
       ELSE UNCHANGED <<state, last_error>>
    /\ frames' = [frames EXCEPT ![worker_frame] = DropHandle(@)]
    /\ worker_frame' = 0
    /\ worker_pc' = "w_loop"
    /\ UNCHANGED <<frame_queue, max_queue_depth, is_blocking, stop_worker,
                   queue_mutex, worker_thread, subVars, ctlVars, obsVars>>
    /\ UNCHANGED nonSinkVars

\* -------------------------------------------------- the control thread
\* The parameters Initialize reads: queue_depth absent or a depth, blocking
\* absent or a flag.
QueueDepthParams == {<<>>} \cup {<<d>> : d \in DepthInputs}
BlockingParams == {<<>>, <<TRUE>>, <<FALSE>>}

ValidDepth(d) == ~(d = 0 \/ d > MaxDepthLimit)

Call(op, pc) ==
    /\ ctl_op' = op
    /\ ctl_pc' = pc
    /\ ctl_ret' = "pending"

Return(op, ret) ==
    /\ ctl_op' = op
    /\ ctl_pc' = "idle"
    /\ ctl_ret' = ret

\* BaseVideoSink::SetMaxQueueDepth
SetMaxQueueDepth(d) ==
    /\ ~terminated
    /\ ctl_pc = "idle"
    /\ IF ValidDepth(d)
       THEN /\ max_queue_depth' = d
            /\ UNCHANGED <<state, last_error>>
            /\ Return("SetMaxQueueDepth", "true")
       ELSE /\ SetError("depth")
            /\ UNCHANGED max_queue_depth
            /\ Return("SetMaxQueueDepth", "false")
    /\ UNCHANGED <<frame_queue, is_blocking, stop_worker, queue_mutex,
                   worker_thread, sink_processed, sink_dropped, workerVars,
                   subVars, frames, obsVars>>
    /\ UNCHANGED nonSinkVars

\* BaseVideoSink::SetInputFormat
SetInputFormat ==
    /\ ~terminated
    /\ ctl_pc = "idle"
    /\ IF state = "RUNNING"
       THEN /\ SetError("format")
            /\ Return("SetInputFormat", "false")
       ELSE /\ UNCHANGED <<state, last_error>>
            /\ Return("SetInputFormat", "true")
    /\ UNCHANGED <<frame_queue, max_queue_depth, is_blocking, stop_worker,
                   queue_mutex, worker_thread, sink_processed, sink_dropped,
                   workerVars, subVars, frames, obsVars>>
    /\ UNCHANGED nonSinkVars

\* BaseVideoSink::SetBlocking
SetBlocking(b) ==
    /\ ~terminated
    /\ ctl_pc = "idle"
    /\ is_blocking' = b
    /\ Return("SetBlocking", "true")
    /\ UNCHANGED <<state, last_error, frame_queue, max_queue_depth,
                   stop_worker, queue_mutex, worker_thread, sink_processed,
                   sink_dropped, workerVars, subVars, frames, obsVars>>
    /\ UNCHANGED nonSinkVars

\* BaseVideoSink::Initialize, up to SetState(INITIALIZED): the queue_depth
\* and blocking parameters are applied through the setters.
Initialize(qd, bl) ==
    /\ ~terminated
    /\ ctl_pc = "idle"
    /\ IF qd /= <<>> /\ ValidDepth(qd[1])
       THEN max_queue_depth' = qd[1]
       ELSE UNCHANGED max_queue_depth
    /\ IF qd /= <<>> /\ ~ValidDepth(qd[1])
       THEN SetError("depth")
       ELSE UNCHANGED <<state, last_error>>
    /\ is_blocking' = IF bl /= <<>> THEN bl[1] ELSE is_blocking
    /\ init_error' = (qd /= <<>> /\ ~ValidDepth(qd[1]))
    /\ Call("Initialize", "init_set")
    /\ UNCHANGED <<frame_queue, stop_worker, queue_mutex, worker_thread,
                   sink_processed, sink_dropped, workerVars, subVars, frames,
                   obsVars>>
    /\ UNCHANGED nonSinkInitVars

\* SetState(INITIALIZED); return true;
InitializeDone ==
    /\ ~terminated
    /\ ctl_pc = "init_set"
    /\ state' = "INITIALIZED"
    /\ Return("Initialize", "true")
    /\ init_error' = FALSE
    /\ UNCHANGED <<last_error, frame_queue, max_queue_depth, is_blocking,
                   stop_worker, queue_mutex, worker_thread, sink_processed,
                   sink_dropped, workerVars, subVars, frames, obsVars>>
    /\ UNCHANGED nonSinkInitVars

\* BaseVideoSink::Start: the state check, then SetState(STARTING).
Start ==
    /\ ~terminated
    /\ ctl_pc = "idle"
    /\ IF state /= "INITIALIZED" /\ state /= "STOPPED"
       THEN /\ SetError("start")
            /\ Return("Start", "false")
       ELSE /\ state' = "STARTING"
            /\ UNCHANGED last_error
            /\ Call("Start", "start_thread")
    /\ UNCHANGED <<frame_queue, max_queue_depth, is_blocking, stop_worker,
                   queue_mutex, worker_thread, sink_processed, sink_dropped,
                   workerVars, subVars, frames, obsVars>>
    /\ UNCHANGED nonSinkVars

\* stop_worker_.store(false); worker_thread_ = std::thread(...);
\* SetState(RUNNING). Assigning to a std::thread that is still joinable
\* calls std::terminate.
StartThread ==
    /\ ~terminated
    /\ ctl_pc = "start_thread"
    /\ stop_worker' = FALSE
    /\ IF worker_thread
       THEN /\ terminated' = TRUE
            /\ UNCHANGED <<state, worker_thread, worker_pc>>
            /\ UNCHANGED ctlVars
       ELSE /\ worker_thread' = TRUE
            /\ worker_pc' = "w_loop"
            /\ state' = "RUNNING"
            /\ Return("Start", "true")
            /\ UNCHANGED terminated
    /\ UNCHANGED <<last_error, frame_queue, max_queue_depth, is_blocking,
                   queue_mutex, sink_processed, sink_dropped, worker_frame,
                   subVars, frames, accepted, delivered_last>>
    /\ UNCHANGED nonSinkVars

\* BaseVideoSink::Stop (op = "Stop") and BaseVideoSink::Shutdown, which
\* only calls Stop (op = "Shutdown"): the state check, SetState(STOPPING).
StopBegin(op) ==
    /\ ~terminated
    /\ ctl_pc = "idle"
    /\ IF state /= "RUNNING"
       THEN /\ UNCHANGED state
            /\ Return(op, "true")
       ELSE /\ state' = "STOPPING"
            /\ Call(op, "stop_flag")
    /\ UNCHANGED <<last_error, frame_queue, max_queue_depth, is_blocking,
                   stop_worker, queue_mutex, worker_thread, sink_processed,
                   sink_dropped, workerVars, subVars, frames, obsVars>>
    /\ UNCHANGED nonSinkVars

Stop == StopBegin("Stop")

Shutdown == StopBegin("Shutdown")

\* stop_worker_.store(true): queue_mutex_ is not taken.
StopSetFlag ==
    /\ ~terminated
    /\ ctl_pc = "stop_flag"
    /\ stop_worker' = TRUE
    /\ ctl_pc' = "stop_notify"
    /\ UNCHANGED <<state, last_error, frame_queue, max_queue_depth,
                   is_blocking, queue_mutex, worker_thread, sink_processed,
                   sink_dropped, workerVars, subVars, ctl_op, ctl_ret, frames,
                   obsVars>>
    /\ UNCHANGED nonSinkVars

\* queue_condition_.notify_all(); queue_not_full_condition_.notify_all();
StopNotify ==
    /\ ~terminated
    /\ ctl_pc = "stop_notify"
    /\ worker_pc' = NotifyWorker(worker_pc)
    /\ sub_pc' = NotifySub(sub_pc)
    /\ ctl_pc' = "stop_join"
    /\ UNCHANGED <<sinkVars, worker_frame, sub_frame, sub_ret, next_id,
                   src_processed, src_dropped, ctl_op, ctl_ret, frames,
                   obsVars>>
    /\ UNCHANGED nonSinkVars

\* if (worker_thread_.joinable()) worker_thread_.join();
StopJoin ==
    /\ ~terminated
    /\ ctl_pc = "stop_join"
    /\ IF worker_thread
       THEN /\ worker_pc = "w_exited"
            /\ worker_pc' = "none"
            /\ worker_thread' = FALSE
       ELSE UNCHANGED <<worker_pc, worker_thread>>
    /\ ctl_pc' = "stop_drain"
    /\ UNCHANGED <<state, last_error, frame_queue, max_queue_depth,
                   is_blocking, stop_worker, queue_mutex, sink_processed,
                   sink_dropped, worker_frame, subVars, ctl_op, ctl_ret,
                   frames, obsVars>>
    /\ UNCHANGED nonSinkVars

\* lock_guard lock(queue_mutex_); pop every frame; SetState(STOPPED);
\* return true (the lock is held until the return).
StopDrain ==
    /\ ~terminated
    /\ ctl_pc = "stop_drain"
    /\ queue_mutex = "free"
    /\ frame_queue' = <<>>
    /\ frames' = [f \in FrameIds |->
                     IF f \in Range(frame_queue) THEN DropHandle(frames[f])
                     ELSE frames[f]]
    /\ state' = "STOPPED"
    /\ Return(ctl_op, "true")
    /\ UNCHANGED <<last_error, max_queue_depth, is_blocking, stop_worker,
                   queue_mutex, worker_thread, sink_processed, sink_dropped,
                   workerVars, subVars, obsVars>>
    /\ UNCHANGED nonSinkVars

\* ---------------------------------------------------------------- Spec
Producer ==
    \/ EmitStamp
    \/ EmitReturn
    \/ PFCheckState
    \/ PFLock
    \/ PFBlock
    \/ PFWake

Worker ==
    \/ WLoop
    \/ WLock
    \/ WBlock
    \/ WWake
    \/ \E o \in HookOutcomes : WProcess(o)

StopSteps ==
    \/ StopSetFlag
    \/ StopNotify
    \/ StopJoin
    \/ StopDrain

Control ==
    \/ \E d \in DepthInputs : SetMaxQueueDepth(d)
    \/ SetInputFormat
    \/ \E b \in BOOLEAN : SetBlocking(b)
    \/ \E qd \in QueueDepthParams, bl \in BlockingParams : Initialize(qd, bl)
    \/ InitializeDone
    \/ Start
    \/ StartThread
    \/ Stop
    \/ Shutdown
    \/ StopSteps

Next == Producer \/ Worker \/ Control

Spec == Init /\ [][Next]_vars

\* The threads are scheduled fairly: a step a thread can take is
\* eventually taken. The control thread's new calls and the producer's new
\* frames are not forced.
FairSpec ==
    /\ Init
    /\ [][Next]_vars
    /\ WF_vars(Worker)
    /\ WF_vars(StopSteps)
    /\ WF_vars(PFCheckState \/ PFLock \/ PFBlock \/ PFWake \/ EmitReturn)

\* ------------------------------------------------------------ EmitSpec
\* The source side in full (rate gate, ResetStats from another thread)
\* feeding the sink, with the sink configured through Initialize only.
EmitQueueDepthParams == {<<>>, <<1>>}
EmitBlockingParams == {<<>>, <<FALSE>>}

EmitProducer ==
    \/ EmitGateReject
    \/ SourceResetStats
    \/ Producer

EmitControl ==
    \/ \E qd \in EmitQueueDepthParams, bl \in EmitBlockingParams :
           Initialize(qd, bl)
    \/ InitializeDone
    \/ Start
    \/ StartThread
    \/ Stop
    \/ StopSteps

EmitNext == EmitProducer \/ Worker \/ EmitControl

EmitSpec == Init /\ [][EmitNext]_vars

\* ---------------------------------------------------------- SourceSpec
\* BaseVideoSource::EmitFrame alone: the rate gate, the stamp, the delivery
\* callback (ProcessFrame of a sink with its default parameters, started
\* once and never stopped) and ResetStats from another thread.
SourceNext ==
    \/ EmitGateReject
    \/ SourceResetStats
    \/ EmitStamp
    \/ EmitReturn
    \/ PFCheckState
    \/ PFLock
    \/ Worker
    \/ Initialize(<<>>, <<>>)
    \/ InitializeDone
    \/ Start
    \/ StartThread

SourceSpec == Init /\ [][SourceNext]_vars

\* ------------------------------------------------------------ HeapSpec
\* SimpleBuffer, the heap frame CreateVideoFrame returns.  The object is
\* built by std::make_shared, so the shared handles own it: the last
\* handle dropped runs ~SimpleBuffer.  SimpleBuffer::Release also deletes
\* the object when the intrusive count goes from 1 to 0.  Everything done
\* to an object that was already reclaimed is undefined behaviour: the
\* process either crashes or carries on with the stale memory.
CrashOutcomes(undefined) == IF undefined THEN {TRUE, FALSE} ELSE {FALSE}

\* ~SimpleBuffer: frees the pixel data.
DestroySimpleBuffer(fr) == [fr EXCEPT !.freed = @ + 1]

\* frame_size is FrameInfo::GetFrameSize(); 0 returns a null handle.
CreateVideoFrame(h, frame_size) ==
    /\ ~heap_crashed
    /\ ~heap[h].created
    /\ \A g \in HeapIds : g < h => heap[g].created
    /\ heap' = IF frame_size = 0
                  THEN heap
                  ELSE [heap EXCEPT ![h] = [created |-> TRUE, use |-> 1,
                                            ref |-> 1, freed |-> 0]]
    /\ UNCHANGED heap_crashed
    /\ UNCHANGED nonHeapVars

\* A holder of a handle copies it.
HeapCopyHandle(h) ==
    /\ ~heap_crashed
    /\ heap[h].use >= 1
    /\ heap[h].use < MaxHandles
    /\ heap' = [heap EXCEPT ![h].use = @ + 1]
    /\ \E crash \in CrashOutcomes(heap[h].freed > 0) : heap_crashed' = crash
    /\ UNCHANGED nonHeapVars

\* A holder drops its handle; the last one destroys the object.
HeapDropHandle(h) ==
    /\ ~heap_crashed
    /\ heap[h].use >= 1
    /\ heap[h].freed < MaxFrees
    /\ heap' = [heap EXCEPT ![h] =
                   IF heap[h].use = 1
                   THEN DestroySimpleBuffer([@ EXCEPT !.use = 0])
                   ELSE [@ EXCEPT !.use = @ - 1]]
    /\ \E crash \in CrashOutcomes(heap[h].freed > 0) : heap_crashed' = crash
    /\ UNCHANGED nonHeapVars

\* SimpleBuffer::AddRef through a handle.
HeapAddRef(h) ==
    /\ ~heap_crashed
    /\ heap[h].use >= 1
    /\ heap[h].ref \in 0..(MaxRefs - 1)
    /\ heap' = [heap EXCEPT ![h].ref = FetchAdd(@)]
    /\ \E crash \in CrashOutcomes(heap[h].freed > 0) : heap_crashed' = crash
    /\ UNCHANGED nonHeapVars

\* SimpleBuffer::Release through a handle: fetch_sub(1) == 1 deletes the
\* object, which operator new never allocated.
HeapRelease(h) ==
    /\ ~heap_crashed
    /\ heap[h].use >= 1
    /\ heap[h].ref \in 0..MaxRefs
    /\ heap[h].freed < MaxFrees
    /\ heap' = [heap EXCEPT ![h] =
                   IF heap[h].ref = 1
                   THEN DestroySimpleBuffer([@ EXCEPT !.ref = FetchSub(@)])
                   ELSE [@ EXCEPT !.ref = FetchSub(@)]]
    /\ \E crash \in CrashOutcomes(heap[h].freed > 0 \/ heap[h].ref = 1) :
           heap_crashed' = crash
    /\ UNCHANGED nonHeapVars

FrameSizes == {0, 1}

HeapNext ==
    \E h \in HeapIds :
        \/ \E frame_size \in FrameSizes : CreateVideoFrame(h, frame_size)
        \/ HeapCopyHandle(h)
        \/ HeapDropHandle(h)
        \/ HeapAddRef(h)
        \/ HeapRelease(h)

HeapSpec == Init /\ [][HeapNext]_vars

\* ------------------------------------------------------------ LifeSpec
\* The lifecycle of the video sources.  One thread makes the calls, one at
\* a time; TestPatternSource runs its generator thread beside it.
SetBlkState(k, st) == blk_state' = [blk_state EXCEPT ![k] = st]

\* BaseBlock::SetError on source k.
SetBlkError(k) ==
    /\ blk_error' = [blk_error EXCEPT ![k] = "error"]
    /\ SetBlkState(k, "ERROR")

\* The call `op` on source k is entered and goes on at pc.
LifeCall(k, op, pc) ==
    /\ life_op' = <<k, op>>
    /\ life_pre' = blk_state[k]
    /\ life_ret' = "pending"
    /\ life_pc' = pc

\* The call in progress returns ret.
LifeReturn(ret) ==
    /\ life_pc' = "idle"
    /\ life_ret' = ret
    /\ UNCHANGED <<life_op, life_pre>>

\* The call `op` on source k is entered and returns ret in the same step.
LifeCallReturn(k, op, ret) ==
    /\ life_op' = <<k, op>>
    /\ life_pre' = blk_state[k]
    /\ life_ret' = ret
    /\ life_pc' = "idle"

LifeIdle == ~life_terminated /\ life_pc = "idle"

\* BaseVideoSource::Initialize, first half: the "fps" parameter goes
\* through SetFrameRate, which calls SetError on a rate outside (0, 1000].
SourceInitialize(k, fps_ok) ==
    /\ LifeIdle
    /\ LifeCall(k, "Initialize", "init_base")
    /\ IF fps_ok
       THEN UNCHANGED <<blk_state, blk_error>>
       ELSE SetBlkError(k)
    /\ UNCHANGED <<stop_generator_, generator_thread_, gen_pc, camera_,
                   stream_, running_, life_terminated>>
    /\ UNCHANGED nonLifeVars

\* BaseVideoSource::Initialize, second half: SetState(INITIALIZED), whatever
\* the state was.  LibcameraSource::Initialize goes on to the camera.
BaseInitializeDone ==
    /\ ~life_terminated
    /\ life_pc = "init_base"
    /\ SetBlkState(life_op[1], "INITIALIZED")
    /\ IF life_op[1] = "LibcameraSource"
       THEN /\ life_pc' = "init_camera"
            /\ UNCHANGED <<life_op, life_pre, life_ret>>
       ELSE LifeReturn("true")
    /\ UNCHANGED <<blk_error, stop_generator_, generator_thread_, gen_pc,
                   camera_, stream_, running_, life_terminated>>
    /\ UNCHANGED nonLifeVars

\* What the camera stack can answer during LibcameraSource::Initialize.
CameraOutcomes == {"manager_fail", "no_cameras", "not_found", "acquire_fail",
                   "configure_fail", "no_stream", "buffers_fail", "ok"}

\* LibcameraSource::Initialize after the base class: CameraManager::start,
\* ConfigureCamera, SetupBuffers, SetState(INITIALIZED).
LibcameraInitialize(outcome) ==
    /\ ~life_terminated
    /\ life_pc = "init_camera"
    /\ camera_' = CASE outcome \in {"manager_fail", "no_cameras"} -> camera_
                    [] outcome = "not_found" -> FALSE
                    [] OTHER -> TRUE
    /\ stream_' = CASE outcome = "no_stream" -> FALSE
                    [] outcome \in {"buffers_fail", "ok"} -> TRUE
                    [] OTHER -> stream_
    /\ IF outcome = "ok"
       THEN /\ SetBlkState("LibcameraSource", "INITIALIZED")
            /\ LifeReturn("true")
            /\ UNCHANGED blk_error
       ELSE /\ SetBlkError("LibcameraSource")
            /\ LifeReturn("false")
    /\ UNCHANGED <<stop_generator_, generator_thread_, gen_pc, running_,
                   life_terminated>>
    /\ UNCHANGED nonLifeVars

\* BaseVideoSource::Stop: SetState(STOPPING).
BaseStop ==
    /\ LifeIdle
    /\ LifeCall("BaseVideoSource", "Stop", "base_stop")
    /\ SetBlkState("BaseVideoSource", "STOPPING")
    /\ UNCHANGED <<blk_error, stop_generator_, generator_thread_, gen_pc,
                   camera_, stream_, running_, life_terminated>>
    /\ UNCHANGED nonLifeVars

\* BaseVideoSource::Stop: SetState(STOPPED); return true.
BaseStopDone ==
    /\ ~life_terminated
    /\ life_pc = "base_stop"
    /\ SetBlkState("BaseVideoSource", "STOPPED")
    /\ LifeReturn("true")
    /\ UNCHANGED <<blk_error, stop_generator_, generator_thread_, gen_pc,
                   camera_, stream_, running_, life_terminated>>
    /\ UNCHANGED nonLifeVars

\* TestPatternSource::SetOutputFormat and LibcameraSource::SetOutputFormat.
SourceSetOutputFormat(k, supported) ==
    /\ LifeIdle
    /\ k /= "BaseVideoSource"
    /\ IF blk_state[k] = "RUNNING" \/ ~supported
       THEN /\ SetBlkError(k)
            /\ LifeCallReturn(k, "SetOutputFormat", "false")
       ELSE /\ LifeCallReturn(k, "SetOutputFormat", "true")
            /\ UNCHANGED <<blk_state, blk_error>>
    /\ UNCHANGED <<stop_generator_, generator_thread_, gen_pc, camera_,
                   stream_, running_, life_terminated>>
    /\ UNCHANGED nonLifeVars

\* TestPatternSource::Start up to SetState(STARTING) and the flag.
TestPatternStart ==
    /\ LifeIdle
    /\ IF blk_state["TestPatternSource"] = "RUNNING"
       THEN /\ LifeCallReturn("TestPatternSource", "Start", "true")
            /\ UNCHANGED <<blk_state, blk_error, stop_generator_>>
       ELSE IF blk_state["TestPatternSource"] \notin {"INITIALIZED", "STOPPED"}
       THEN /\ SetBlkError("TestPatternSource")
            /\ LifeCallReturn("TestPatternSource", "Start", "false")
            /\ UNCHANGED stop_generator_
       ELSE /\ SetBlkState("TestPatternSource", "STARTING")
            /\ stop_generator_' = FALSE
            /\ LifeCall("TestPatternSource", "Start", "tp_start_thread")
            /\ UNCHANGED blk_error
    /\ UNCHANGED <<generator_thread_, gen_pc, camera_, stream_, running_,
                   life_terminated>>
    /\ UNCHANGED nonLifeVars

\* generator_thread_ = std::thread(...); SetState(RUNNING).  Assigning to
\* a std::thread that is still joinable calls std::terminate.
TestPatternStartThread ==
    /\ ~life_terminated
    /\ life_pc = "tp_start_thread"
    /\ IF generator_thread_
       THEN /\ life_terminated' = TRUE
            /\ UNCHANGED <<blk_state, generator_thread_, gen_pc, life_pc,
                           life_op, life_pre, life_ret>>
       ELSE /\ generator_thread_' = TRUE
            /\ gen_pc' = "g_loop"
            /\ SetBlkState("TestPatternSource", "RUNNING")
            /\ LifeReturn("true")
            /\ UNCHANGED life_terminated
    /\ tp_sequence' = 0
    /\ UNCHANGED <<blk_error, stop_generator_, camera_, stream_, running_,
                   tp_frames_processed>>
    /\ UNCHANGED nonLifeSeqVars

\* TestPatternSource::Stop up to the join; Shutdown only calls Stop and
\* returns true.
TestPatternStopBegin(op) ==
    /\ LifeIdle
    /\ IF blk_state["TestPatternSource"] /= "RUNNING"
       THEN /\ LifeCallReturn("TestPatternSource", op, "true")
            /\ UNCHANGED <<blk_state, stop_generator_>>
       ELSE /\ SetBlkState("TestPatternSource", "STOPPING")
            /\ stop_generator_' = TRUE
            /\ LifeCall("TestPatternSource", op, "tp_join")
    /\ UNCHANGED <<blk_error, generator_thread_, gen_pc, camera_, stream_,
                   running_, life_terminated>>
    /\ UNCHANGED nonLifeVars

TestPatternStop == TestPatternStopBegin("Stop")

TestPatternShutdown == TestPatternStopBegin("Shutdown")

\* if (joinable()) join(); SetState(STOPPED); return true.
TestPatternStopJoin ==
    /\ ~life_terminated
    /\ life_pc = "tp_join"
    /\ generator_thread_ => gen_pc = "g_exited"
    /\ generator_thread_' = FALSE
    /\ gen_pc' = "none"
    /\ SetBlkState("TestPatternSource", "STOPPED")
    /\ LifeReturn("true")
    /\ UNCHANGED <<blk_error, stop_generator_, camera_, stream_, running_,
                   life_terminated>>
    /\ UNCHANGED nonLifeVars

\* TestPatternSource::GeneratorThread, top of the loop: the flag is read;
\* a frame that cannot be created ends the thread; a frame that is not due
\* yet sends the thread round the loop again.
GenLoop(frame_ok) ==
    /\ ~life_terminated
    /\ gen_pc = "g_loop"
    /\ gen_pc' = IF stop_generator_ \/ ~frame_ok THEN "g_exited"
                 ELSE IF tp_frames_processed < MaxEmits THEN "g_emit"
                 ELSE "g_loop"
    /\ UNCHANGED <<blk_state, blk_error, stop_generator_, generator_thread_,
                   camera_, stream_, running_, life_pc, life_op, life_pre,
                   life_ret, life_terminated>>
    /\ UNCHANGED nonLifeVars

\* info.sequence_number = GetStats().frames_processed + 1
SequenceNumber == tp_frames_processed + 1

\* GenerateFrame; EmitFrame, which stamps the frame, delivers it and
\* counts it in UpdateStats; frame_counter_++.
GenEmit ==
    /\ ~life_terminated
    /\ gen_pc = "g_emit"
    /\ gen_pc' = "g_loop"
    /\ tp_sequence' = SequenceNumber
    /\ tp_frames_processed' = tp_frames_processed + 1
    /\ UNCHANGED <<blk_state, blk_error, stop_generator_, generator_thread_,
                   camera_, stream_, running_, life_pc, life_op, life_pre,
                   life_ret, life_terminated>>
    /\ UNCHANGED nonLifeSeqVars

\* LibcameraSource::Start up to running_.store(true): the state is not
\* looked at, only camera_ and stream_.
LibcameraStart ==
    /\ LifeIdle
    /\ IF ~camera_ \/ ~stream_
       THEN /\ SetBlkError("LibcameraSource")
            /\ LifeCallReturn("LibcameraSource", "Start", "false")
            /\ UNCHANGED running_
       ELSE /\ SetBlkState("LibcameraSource", "STARTING")
            /\ running_' = TRUE
            /\ LifeCall("LibcameraSource", "Start", "lc_start")
            /\ UNCHANGED blk_error
    /\ UNCHANGED <<stop_generator_, generator_thread_, gen_pc, camera_,
                   stream_, life_terminated>>
    /\ UNCHANGED nonLifeVars

\* camera_->start(), then the requests are queued and SetState(RUNNING).
LibcameraStartCamera(started) ==
    /\ ~life_terminated
    /\ life_pc = "lc_start"
    /\ IF started
       THEN /\ SetBlkState("LibcameraSource", "RUNNING")
            /\ LifeReturn("true")
            /\ UNCHANGED <<blk_error, running_>>
       ELSE /\ SetBlkError("LibcameraSource")
            /\ running_' = FALSE
            /\ LifeReturn("false")
    /\ UNCHANGED <<stop_generator_, generator_thread_, gen_pc, camera_,
                   stream_, life_terminated>>
    /\ UNCHANGED nonLifeVars

\* LibcameraSource::Stop: running_.store(false); the camera is stopped if
\* there is one; SetState(STOPPED); return true.
LibcameraStop ==
    /\ LifeIdle
    /\ running_' = FALSE
    /\ SetBlkState("LibcameraSource", "STOPPED")
    /\ LifeCallReturn("LibcameraSource", "Stop", "true")
    /\ UNCHANGED <<blk_error, stop_generator_, generator_thread_, gen_pc,
                   camera_, stream_, life_terminated>>
    /\ UNCHANGED nonLifeVars

\* LibcameraSource::Shutdown: Stop(); TeardownBuffers(); camera_.reset().
\* stream_ is left as it is.
LibcameraShutdown ==
    /\ LifeIdle
    /\ running_' = FALSE
    /\ SetBlkState("LibcameraSource", "STOPPED")
    /\ camera_' = FALSE
    /\ LifeCallReturn("LibcameraSource", "Shutdown", "true")
    /\ UNCHANGED <<blk_error, stop_generator_, generator_thread_, gen_pc,
                   stream_, life_terminated>>
    /\ UNCHANGED nonLifeVars

LifeNext ==
    \/ \E k \in SourceKinds, fps_ok \in BOOLEAN : SourceInitialize(k, fps_ok)
    \/ BaseInitializeDone
    \/ \E outcome \in CameraOutcomes : LibcameraInitialize(outcome)
    \/ BaseStop
    \/ BaseStopDone
    \/ \E k \in SourceKinds, supported \in BOOLEAN :
           SourceSetOutputFormat(k, supported)
    \/ TestPatternStart
    \/ TestPatternStartThread
    \/ TestPatternStop
    \/ TestPatternShutdown
    \/ TestPatternStopJoin
    \/ \E frame_ok \in BOOLEAN : GenLoop(frame_ok)
    \/ GenEmit
    \/ LibcameraStart
    \/ \E started \in BOOLEAN : LibcameraStartCamera(started)
    \/ LibcameraStop
    \/ LibcameraShutdown

LifeSpec == Init /\ [][LifeNext]_vars

\* ------------------------------------------------------------ PipeSpec
\* PipelineManager driving the blocks it created.  A block is seen through
\* what its Initialize, Start and Stop return and the state they leave.
InMapOrder(S) == SelectSeq([i \in 1..MaxBlocks |-> i], LAMBDA b : b \in S)

\* The blocks of the map that the dynamic casts put in one class: a block
\* is tried as IVideoSource first, then as IVideoSink.
Classified(kind) == {b \in BlockNames : blocks_[b] = kind}

InMap == {b \in BlockNames : blocks_[b] /= "absent"}

\* block->Start(): BaseVideoSink::Start and TestPatternSource::Start want
\* Initialized or Stopped (the source also accepts Running); the block's
\* own resources (socket, camera) can fail as well.
StartAccepted(kind, st, ok) ==
    \/ kind = "source" /\ st = "RUNNING"
    \/ st \in {"INITIALIZED", "STOPPED"} /\ ok

StartState(kind, st, ok) ==
    IF StartAccepted(kind, st, ok) THEN "RUNNING" ELSE "ERROR"

\* block->Stop(): Running -> Stopped, nothing otherwise; returns true.
StopState(st) == IF st = "RUNNING" THEN "STOPPED" ELSE st

\* The manager call `op` is entered and goes on at pc.
PMCall(op, pc) ==
    /\ pm_op' = op
    /\ pm_ret' = "pending"
    /\ pm_pc' = pc

\* The manager call in progress returns ret.
PMReturn(ret) ==
    /\ pm_pc' = "idle"
    /\ pm_ret' = ret
    /\ UNCHANGED pm_op

\* PipelineManager::Initialize up to CreateBlocks' blocks_.clear().
PMInitialize(cfg) ==
    /\ pm_pc = "idle"
    /\ pm_op' = "Initialize"
    /\ IF is_running_
       THEN /\ pm_last_error' = <<"running", 0>>
            /\ pm_pc' = "idle"
            /\ pm_ret' = "false"
            /\ UNCHANGED <<config_, blocks_, pblk_state, pm_todo>>
       ELSE /\ config_' = cfg
            /\ blocks_' = [b \in BlockNames |-> "absent"]
            /\ pblk_state' = [b \in BlockNames |-> "UNINITIALIZED"]
            /\ pm_pc' = "create"
            /\ pm_ret' = "pending"
            /\ pm_todo' = InMapOrder(BlockNames)
            /\ UNCHANGED pm_last_error
    /\ pm_calls' = <<>>
    /\ UNCHANGED is_running_
    /\ UNCHANGED nonPipeVars

\* CreateBlocks: one turn of the loop; created is what CreateBlock returned.
PMCreateBlock(created) ==
    /\ pm_pc = "create"
    /\ IF pm_todo = <<>>
       THEN /\ pm_pc' = "configure"
            /\ pm_todo' = InMapOrder(BlockNames)
            /\ UNCHANGED <<blocks_, pm_last_error, pm_ret, pm_op>>
       ELSE IF created
       THEN /\ blocks_' = [blocks_ EXCEPT ![Head(pm_todo)] = config_[Head(pm_todo)]]
            /\ pm_todo' = Tail(pm_todo)
            /\ UNCHANGED <<pm_last_error, pm_pc, pm_ret, pm_op>>
       ELSE /\ pm_last_error' = <<"create", Head(pm_todo)>>
            /\ PMReturn("false")
            /\ UNCHANGED <<blocks_, pm_todo>>
    /\ UNCHANGED <<config_, pblk_state, is_running_, pm_calls>>
    /\ UNCHANGED nonPipeVars

\* ConfigureBlocks: one turn of the loop; block->Initialize returns ok.
PMConfigureBlock(ok) ==
    /\ pm_pc = "configure"
    /\ IF pm_todo = <<>>
       THEN /\ pm_pc' = "connect"
            /\ UNCHANGED <<pblk_state, pm_last_error, pm_ret, pm_op, pm_todo>>
       ELSE /\ pblk_state' = [pblk_state EXCEPT ![Head(pm_todo)] =
                                 IF ok THEN "INITIALIZED" ELSE "ERROR"]
            /\ IF ok
               THEN /\ pm_todo' = Tail(pm_todo)
                    /\ UNCHANGED <<pm_last_error, pm_pc, pm_ret, pm_op>>
               ELSE /\ pm_last_error' = <<"initialize", Head(pm_todo)>>
                    /\ PMReturn("false")
                    /\ UNCHANGED pm_todo
    /\ UNCHANGED <<config_, blocks_, is_running_, pm_calls>>
    /\ UNCHANGED nonPipeVars

\* ConnectBlocks: connected is false when a connection names a block that
\* is missing or lacks the capability.
PMConnectBlocks(connected) ==
    /\ pm_pc = "connect"
    /\ IF connected
       THEN /\ PMReturn("true")
            /\ UNCHANGED pm_last_error
       ELSE /\ pm_last_error' = <<"connect", 0>>
            /\ PMReturn("false")
    /\ UNCHANGED <<config_, blocks_, pblk_state, is_running_, pm_todo,
                   pm_calls>>
    /\ UNCHANGED nonPipeVars

\* The variant that starts the blocks as the map iterates them.
StartOrderOfMap == InMapOrder(InMap)

\* Start calls Start on the sinks, then the others, then the sources.
StartOrder ==
    InMapOrder(Classified("sink")) \o InMapOrder(Classified("other"))
        \o InMapOrder(Classified("source"))

\* The variant that stops the blocks in the order Start starts them.
StopOrderOfStart == StartOrder

\* Stop calls Stop on the sources, then the others, then the sinks.
StopOrder ==
    InMapOrder(Classified("source")) \o InMapOrder(Classified("other"))
        \o InMapOrder(Classified("sink"))

\* PipelineManager::Start up to the classification of the blocks.
PMStart ==
    /\ pm_pc = "idle"
    /\ IF InMap = {}
       THEN /\ pm_last_error' = <<"no blocks", 0>>
            /\ pm_op' = "Start" /\ pm_pc' = "idle" /\ pm_ret' = "false"
            /\ UNCHANGED pm_todo
       ELSE IF is_running_
       THEN /\ pm_op' = "Start" /\ pm_pc' = "idle" /\ pm_ret' = "true"
            /\ UNCHANGED <<pm_last_error, pm_todo>>
       ELSE /\ PMCall("Start", "start")
            /\ pm_todo' = StartOrder
            /\ UNCHANGED pm_last_error
    /\ pm_calls' = <<>>
    /\ UNCHANGED <<config_, blocks_, pblk_state, is_running_>>
    /\ UNCHANGED nonPipeVars

\* The variant of the Start loops that goes on to the next block after a
\* block failed to start.
PMStartBlockBestEffort(ok) ==
    /\ pm_pc = "start"
    /\ IF pm_todo = <<>>
       THEN /\ is_running_' = TRUE
            /\ PMReturn("true")
            /\ UNCHANGED <<pblk_state, pm_last_error, pm_todo, pm_calls>>
       ELSE LET b == Head(pm_todo)
                started == StartAccepted(blocks_[b], pblk_state[b], ok)
            IN  /\ pblk_state' = [pblk_state EXCEPT ![b] =
                                     StartState(blocks_[b], @, ok)]
                /\ pm_calls' = Append(pm_calls, b)
                /\ pm_todo' = Tail(pm_todo)
                /\ pm_last_error' = IF started THEN pm_last_error
                                                ELSE <<"start", b>>
                /\ UNCHANGED <<pm_pc, pm_ret, pm_op, is_running_>>
    /\ UNCHANGED <<config_, blocks_>>
    /\ UNCHANGED nonPipeVars

\* One turn of the three Start loops; after the last, is_running_ is set.
PMStartBlock(ok) ==
    /\ pm_pc = "start"
    /\ IF pm_todo = <<>>
       THEN /\ is_running_' = TRUE
            /\ PMReturn("true")
            /\ UNCHANGED <<pblk_state, pm_last_error, pm_todo, pm_calls>>
       ELSE LET b == Head(pm_todo)
                started == StartAccepted(blocks_[b], pblk_state[b], ok)
            IN  /\ pblk_state' = [pblk_state EXCEPT ![b] =
                                     StartState(blocks_[b], @, ok)]
                /\ pm_calls' = Append(pm_calls, b)
                /\ IF started
                   THEN /\ pm_todo' = Tail(pm_todo)
                        /\ UNCHANGED <<pm_last_error, pm_pc, pm_ret, pm_op>>
                   ELSE /\ pm_last_error' = <<"start", b>>
                        /\ PMReturn("false")
                        /\ UNCHANGED pm_todo
                /\ UNCHANGED is_running_
    /\ UNCHANGED <<config_, blocks_>>
    /\ UNCHANGED nonPipeVars

\* PipelineManager::Stop, or the Stop() that Shutdown calls first, up to
\* the classification of the blocks.
PMStopBegin(op) ==
    /\ pm_pc = "idle"
    /\ pm_op' = op
    /\ pm_calls' = <<>>
    /\ IF is_running_
       THEN /\ pm_pc' = "stop"
            /\ pm_ret' = "pending"
            /\ pm_todo' = StopOrder
       ELSE IF op = "Stop"
       THEN /\ pm_pc' = "idle"
            /\ pm_ret' = "true"
            /\ UNCHANGED pm_todo
       ELSE /\ pm_pc' = "shutdown"
            /\ pm_ret' = "pending"
            /\ pm_todo' = InMapOrder(InMap)
    /\ UNCHANGED <<config_, blocks_, pblk_state, is_running_, pm_last_error>>
    /\ UNCHANGED nonPipeVars

PMStop == PMStopBegin("Stop")

PMShutdown == PMStopBegin("Shutdown")

\* One turn of the three Stop loops; ok is what the block's Stop returns,
\* which is not looked at.  After the last turn is_running_ is cleared.
PMStopBlock(ok) ==
    /\ pm_pc = "stop"
    /\ IF pm_todo = <<>>
       THEN /\ is_running_' = FALSE
            /\ IF pm_op = "Stop"
               THEN /\ PMReturn("true")
                    /\ UNCHANGED <<pm_todo, pm_calls>>
               ELSE /\ pm_pc' = "shutdown"
                    /\ pm_todo' = InMapOrder(InMap)
                    /\ pm_calls' = <<>>
                    /\ UNCHANGED <<pm_op, pm_ret>>
            /\ UNCHANGED pblk_state
       ELSE /\ pblk_state' = [pblk_state EXCEPT ![Head(pm_todo)] = StopState(@)]
            /\ pm_calls' = Append(pm_calls, Head(pm_todo))
            /\ pm_todo' = Tail(pm_todo)
            /\ UNCHANGED <<is_running_, pm_pc, pm_op, pm_ret>>
    /\ UNCHANGED <<config_, blocks_, pm_last_error>>
    /\ UNCHANGED nonPipeVars

\* PipelineManager::Shutdown after Stop(): one turn of the loop over
\* blocks_ (a block's Shutdown is its Stop); then blocks_.clear() and
\* config_ = PipelineConfig{}.
PMShutdownBlock ==
    /\ pm_pc = "shutdown"
    /\ IF pm_todo = <<>>
       THEN /\ blocks_' = [b \in BlockNames |-> "absent"]
            /\ config_' = [b \in BlockNames |-> "absent"]
            /\ pblk_state' = [b \in BlockNames |-> "UNINITIALIZED"]
            /\ PMReturn("true")
            /\ UNCHANGED <<pm_todo, pm_calls>>
       ELSE /\ pblk_state' = [pblk_state EXCEPT ![Head(pm_todo)] = StopState(@)]
            /\ pm_calls' = Append(pm_calls, Head(pm_todo))
            /\ pm_todo' = Tail(pm_todo)
            /\ UNCHANGED <<config_, blocks_, pm_pc, pm_op, pm_ret>>
    /\ UNCHANGED <<is_running_, pm_last_error>>
    /\ UNCHANGED nonPipeVars

\* PipelineManager::OnBlockError, the callback CreateBlocks gives every
\* block: it writes a log line and nothing else.
OnBlockError(b) == UNCHANGED pm_last_error

\* A running block reports an error from its own thread (BaseBlock::
\* SetError): it goes to ERROR and the manager's callback is invoked.
PMBlockError(b) ==
    /\ b \in InMap
    /\ pblk_state[b] = "RUNNING"
    /\ pblk_state' = [pblk_state EXCEPT ![b] = "ERROR"]
    /\ OnBlockError(b)
    /\ UNCHANGED <<config_, blocks_, is_running_, pm_pc, pm_op, pm_ret,
                   pm_todo, pm_calls>>
    /\ UNCHANGED nonPipeVars

PipeNext ==
    \/ \E cfg \in [BlockNames -> BlockKinds] : PMInitialize(cfg)
    \/ \E created \in BOOLEAN : PMCreateBlock(created)
    \/ \E ok \in BOOLEAN : PMConfigureBlock(ok)
    \/ \E connected \in BOOLEAN : PMConnectBlocks(connected)
    \/ PMStart
    \/ \E ok \in BOOLEAN : PMStartBlock(ok)
    \/ PMStop
    \/ PMShutdown
    \/ \E ok \in BOOLEAN : PMStopBlock(ok)
    \/ PMShutdownBlock

PipeSpec == Init /\ [][PipeNext]_vars

\* The three Start loops run from a given list of blocks and block states,
\* ok[b] being what block b's own resources allow: the states the blocks are
\* left in, whether every block started, and the block that failed if one
\* did (0: none).
RECURSIVE StartLoops(_, _, _)
StartLoops(todo, st, ok) ==
    IF todo = <<>>
    THEN [state |-> st, started |-> TRUE, failed |-> 0]
    ELSE LET b == Head(todo)
         IN  IF StartAccepted(blocks_[b], st[b], ok[b])
             THEN StartLoops(Tail(todo), [st EXCEPT ![b] = "RUNNING"], ok)
             ELSE [state |-> [st EXCEPT ![b] = "ERROR"], started |-> FALSE,
                   failed |-> b]

\* PipelineManager::Start called by another thread while the first thread
\* is inside Shutdown, between the return of its Stop() (mutex_ released)
\* and the lock_guard that follows.  Start holds mutex_ from its first line
\* to its return, so it is one step for the thread in Shutdown.
PMStartDuringShutdown(ok) ==
    /\ pm_pc = "shutdown"
    /\ pm_calls = <<>>
    /\ IF InMap = {}
       THEN /\ pm_last_error' = <<"no blocks", 0>>
            /\ UNCHANGED <<pblk_state, is_running_>>
       ELSE IF is_running_
       THEN UNCHANGED <<pblk_state, is_running_, pm_last_error>>
       ELSE LET r == StartLoops(StartOrder, pblk_state, ok)
            IN  /\ pblk_state' = r.state
                /\ is_running_' = r.started
                /\ pm_last_error' = IF r.started THEN pm_last_error
                                    ELSE <<"start", r.failed>>
    /\ UNCHANGED <<config_, blocks_, pm_pc, pm_op, pm_ret, pm_todo, pm_calls>>
    /\ UNCHANGED nonPipeVars

\* The manager's calls with a second thread that calls Start.
PipeRaceNext ==
    \/ PipeNext
    \/ \E ok \in [BlockNames -> BOOLEAN] : PMStartDuringShutdown(ok)

PipeRaceSpec == Init /\ [][PipeRaceNext]_vars

\* The manager's calls, with the running blocks reporting errors from
\* their own threads at any time.
PipeErrorNext ==
    \/ PipeNext
    \/ \E b \in BlockNames : PMBlockError(b)

PipeErrorSpec == Init /\ [][PipeErrorNext]_vars

\* ------------------------------------------------------------- RegSpec
\* BlockRegistry: a std::map from type name to factory behind one
\* std::mutex. Every member function takes the mutex with a lock_guard as
\* its first statement and keeps it until it returns.

\* std::map::find: the position of the entry for a type, 0 for end().
MapFind(m, type) ==
    IF \E i \in 1..Len(m) : m[i][1] = type
    THEN CHOOSE i \in 1..Len(m) : m[i][1] = type
    ELSE 0

\* The entries in front of the place where a new key goes.
MapLowerBound(m, type) ==
    Cardinality({i \in 1..Len(m) : m[i][1] < type})

\* std::map::emplace: a key that is present keeps its value. Not what the
\* registry does.
MapEmplace(m, type, factory) ==
    IF MapFind(m, type) /= 0
    THEN m
    ELSE SubSeq(m, 1, MapLowerBound(m, type)) \o <<<<type, factory>>>>
         \o SubSeq(m, MapLowerBound(m, type) + 1, Len(m))

\* factories_[type] = factory: operator[] finds the entry or inserts one
\* in key order, and the assignment replaces its value.
MapAssign(m, type, factory) ==
    IF MapFind(m, type) /= 0
    THEN [m EXCEPT ![MapFind(m, type)] = <<type, factory>>]
    ELSE SubSeq(m, 1, MapLowerBound(m, type)) \o <<<<type, factory>>>>
         \o SubSeq(m, MapLowerBound(m, type) + 1, Len(m))

\* std::map::erase(iterator).
MapErase(m, i) == SubSeq(m, 1, i - 1) \o SubSeq(m, i + 1, Len(m))

\* The keys, in the order a range-for visits the map.
MapKeys(m) == [i \in 1..Len(m) |-> m[i][1]]

\* A call that takes the mutex, acts and returns in one step.
RegReturn(op, type, value, types) ==
    reg_result' =
        [op |-> op, type |-> type, value |-> value, types |-> types]

\* A thread can enter a member function when it is outside the registry and
\* the lock_guard can take the mutex.
RegEnter(t) == reg_pc[t] = "idle" /\ reg_mutex = "free"

\* RegisterBlock: stores the factory under the type and returns true.
RegisterBlock(t, type, factory) ==
    /\ RegEnter(t)
    /\ Len(reg_history) < MaxRegOps
    /\ factories_' = MapAssign(factories_, type, factory)
    /\ reg_history' = Append(reg_history, <<"Register", type, factory>>)
    /\ RegReturn("RegisterBlock", type, "true", <<>>)
    /\ UNCHANGED <<reg_mutex, reg_pc, reg_arg>>
    /\ UNCHANGED nonRegVars

\* UnregisterBlock: false for a type that is not there, else erases it.
UnregisterBlock(t, type) ==
    /\ RegEnter(t)
    /\ IF MapFind(factories_, type) = 0
       THEN /\ RegReturn("UnregisterBlock", type, "false", <<>>)
            /\ UNCHANGED <<factories_, reg_history>>
       ELSE /\ Len(reg_history) < MaxRegOps
            /\ factories_' = MapErase(factories_, MapFind(factories_, type))
            /\ reg_history' = Append(reg_history, <<"Unregister", type, "">>)
            /\ RegReturn("UnregisterBlock", type, "true", <<>>)
    /\ UNCHANGED <<reg_mutex, reg_pc, reg_arg>>
    /\ UNCHANGED nonRegVars

\* Clear: empties the map.
RegClear(t) ==
    /\ RegEnter(t)
    /\ Len(reg_history) < MaxRegOps
    /\ factories_' = <<>>
    /\ reg_history' = Append(reg_history, <<"Clear", 0, "">>)
    /\ RegReturn("Clear", 0, "", <<>>)
    /\ UNCHANGED <<reg_mutex, reg_pc, reg_arg>>
    /\ UNCHANGED nonRegVars

\* IsRegistered: whether find() hits.
IsRegistered(t, type) ==
    /\ RegEnter(t)
    /\ RegReturn("IsRegistered", type,
                 IF MapFind(factories_, type) /= 0 THEN "true" ELSE "false",
                 <<>>)
    /\ UNCHANGED <<factories_, reg_mutex, reg_pc, reg_arg, reg_history>>
    /\ UNCHANGED nonRegVars

\* GetRegisteredTypes: the keys of the map, one push_back per entry.
GetRegisteredTypes(t) ==
    /\ RegEnter(t)
    /\ RegReturn("GetRegisteredTypes", 0, "", MapKeys(factories_))
    /\ UNCHANGED <<factories_, reg_mutex, reg_pc, reg_arg, reg_history>>
    /\ UNCHANGED nonRegVars

\* CreateBlock up to the call of the factory: takes the mutex, looks the
\* type up, returns nullptr when it is missing, and otherwise calls the
\* factory with the lock_guard still alive.
CreateBlock(t, type) ==
    /\ RegEnter(t)
    /\ IF MapFind(factories_, type) = 0
       THEN /\ RegReturn("CreateBlock", type, "null", <<>>)
            /\ UNCHANGED <<reg_mutex, reg_pc, reg_arg>>
       ELSE /\ reg_mutex' = t
            /\ reg_pc' = [reg_pc EXCEPT ![t] = "factory"]
            /\ reg_arg' = [reg_arg EXCEPT ![t] =
                              factories_[MapFind(factories_, type)]]
            /\ UNCHANGED reg_result
    /\ UNCHANGED <<factories_, reg_history>>
    /\ UNCHANGED nonRegVars

\* What a factory that does not touch the registry can do: return a block,
\* return nullptr, or throw. CreateBlock turns the last two into nullptr.
FactoryOutcomes == {"block", "null", "throw"}

\* The factory returns and CreateBlock with it; the lock_guard's
\* destructor releases the mutex.
FactoryReturn(t, outcome) ==
    /\ reg_pc[t] = "factory"
    /\ RegReturn("CreateBlock", reg_arg[t][1],
                 IF outcome = "block" THEN reg_arg[t][2] ELSE "null", <<>>)
    /\ reg_mutex' = "free"
    /\ reg_pc' = [reg_pc EXCEPT ![t] = "idle"]
    /\ reg_arg' = [reg_arg EXCEPT ![t] = <<>>]
    /\ UNCHANGED <<factories_, reg_history>>
    /\ UNCHANGED nonRegVars

\* Locking a std::mutex the calling thread already owns is undefined: the
\* thread blocks on itself for ever, or lock() throws std::system_error.
RelockOutcomes == {"deadlock", "system_error"}

\* The factory calls a member function of the registry. Its lock_guard
\* locks the mutex this thread took in CreateBlock. A system_error leaves
\* the factory as an exception, which CreateBlock catches.
FactoryCallsRegistry(t, outcome) ==
    /\ reg_pc[t] = "factory"
    /\ reg_mutex = t
    /\ IF outcome = "deadlock"
       THEN /\ reg_pc' = [reg_pc EXCEPT ![t] = "deadlocked"]
            /\ UNCHANGED <<reg_mutex, reg_arg, reg_result>>
       ELSE /\ RegReturn("CreateBlock", reg_arg[t][1], "null", <<>>)
            /\ reg_mutex' = "free"
            /\ reg_pc' = [reg_pc EXCEPT ![t] = "idle"]
            /\ reg_arg' = [reg_arg EXCEPT ![t] = <<>>]
    /\ UNCHANGED <<factories_, reg_history>>
    /\ UNCHANGED nonRegVars

RegNext ==
    \E t \in RegThreads :
        \/ \E type \in TypeNames, factory \in FactoryIds :
               RegisterBlock(t, type, factory)
        \/ \E type \in TypeNames : UnregisterBlock(t, type)
        \/ RegClear(t)
        \/ \E type \in TypeNames : IsRegistered(t, type)
        \/ GetRegisteredTypes(t)
        \/ \E type \in TypeNames : CreateBlock(t, type)
        \/ \E outcome \in FactoryOutcomes : FactoryReturn(t, outcome)
        \/ \E outcome \in RelockOutcomes : FactoryCallsRegistry(t, outcome)

RegSpec == Init /\ [][RegNext]_vars

\* -------------------------------------------------------------- CbSpec
\* Error reporting on a TcpSink: the control thread and the sink's worker
\* thread both reach BaseBlock::SetError, which stores the message under
\* mutex_, sets the state, and invokes error_callback_ outside the lock.

CbErrors == cb_started["depth"] + cb_started["start"] + cb_started["connect"]

\* A thread enters SetError(error).
CbCallSetError(t, error) ==
    /\ CbErrors < MaxErrors
    /\ cb_pc' = [cb_pc EXCEPT ![t] = "store"]
    /\ cb_error' = [cb_error EXCEPT ![t] = error]
    /\ cb_started' = [cb_started EXCEPT ![error] = @ + 1]

\* An error callback that is silent for the message it was given last.
InvokeErrorCallbackIfNew(t) ==
    cb_invoked' = IF cb_last_error = cb_error[t] /\ cb_invoked[cb_error[t]] > 0
                  THEN cb_invoked
                  ELSE [cb_invoked EXCEPT ![cb_error[t]] = @ + 1]

\* error_callback_(this, error), once, for a message reported again as
\* well as for a new one.
InvokeErrorCallback(t) ==
    cb_invoked' = [cb_invoked EXCEPT ![cb_error[t]] = @ + 1]

\* BaseBlock::SetError, statement by statement.
SetErrorStep(t) ==
    /\ cb_pc[t] \in {"store", "state", "callback"}
    /\ CASE cb_pc[t] = "store" ->
              /\ cb_last_error' = cb_error[t]
              /\ cb_pc' = [cb_pc EXCEPT ![t] = "state"]
              /\ UNCHANGED <<cb_state, cb_invoked>>
         [] cb_pc[t] = "state" ->
              /\ cb_state' = "ERROR"
              /\ cb_pc' = [cb_pc EXCEPT ![t] = "callback"]
              /\ UNCHANGED <<cb_last_error, cb_invoked>>
         [] cb_pc[t] = "callback" ->
              /\ InvokeErrorCallback(t)
              /\ cb_pc' = [cb_pc EXCEPT ![t] = "idle"]
              /\ UNCHANGED <<cb_state, cb_last_error>>
    /\ UNCHANGED <<cb_worker, cb_error, cb_started>>
    /\ UNCHANGED nonCbVars

\* BaseVideoSink::SetMaxQueueDepth with a depth that is rejected.
CbSetMaxQueueDepth ==
    /\ cb_pc["control"] = "idle"
    /\ CbCallSetError("control", "depth")
    /\ UNCHANGED <<cb_state, cb_last_error, cb_worker, cb_invoked>>
    /\ UNCHANGED nonCbVars

\* TcpSink::Initialize: BaseVideoSink::Initialize sets INITIALIZED.
CbInitialize ==
    /\ cb_pc["control"] = "idle"
    /\ cb_state /= "INITIALIZED"
    /\ cb_state' = "INITIALIZED"
    /\ UNCHANGED <<cb_last_error, cb_worker, cb_pc, cb_error, cb_started,
                   cb_invoked>>
    /\ UNCHANGED nonCbVars

\* TcpSink::Start: Connect, which reports its failure, then
\* BaseVideoSink::Start. Starting a second worker over a joinable one
\* ends the process.
CbStart(connected) ==
    /\ cb_pc["control"] = "idle"
    /\ IF ~connected
       THEN /\ CbCallSetError("control", "connect")
            /\ UNCHANGED <<cb_state, cb_worker>>
       ELSE IF cb_state /= "INITIALIZED" /\ cb_state /= "STOPPED"
       THEN /\ CbCallSetError("control", "start")
            /\ UNCHANGED <<cb_state, cb_worker>>
       ELSE IF cb_worker
       THEN /\ cb_pc' = [t \in CbThreads |-> "terminated"]
            /\ cb_state' = "STARTING"
            /\ UNCHANGED <<cb_worker, cb_error, cb_started>>
       ELSE /\ cb_state' = "RUNNING"
            /\ cb_worker' = TRUE
            /\ UNCHANGED <<cb_pc, cb_error, cb_started>>
    /\ UNCHANGED <<cb_last_error, cb_invoked>>
    /\ UNCHANGED nonCbVars

\* TcpSink::Stop on a Running sink: joins the worker, which finishes the
\* frame it is on, and sets STOPPED.
CbStop ==
    /\ cb_pc["control"] = "idle"
    /\ cb_state = "RUNNING"
    /\ cb_pc["worker"] = "idle"
    /\ cb_state' = "STOPPED"
    /\ cb_worker' = FALSE
    /\ UNCHANGED <<cb_last_error, cb_pc, cb_error, cb_started, cb_invoked>>
    /\ UNCHANGED nonCbVars

\* TcpSink::ProcessFrameImpl on the worker thread: the socket is closed
\* or the send failed, and the Connect that follows fails.
CbConnectFails ==
    /\ cb_worker
    /\ cb_pc["worker"] = "idle"
    /\ CbCallSetError("worker", "connect")
    /\ UNCHANGED <<cb_state, cb_last_error, cb_worker, cb_invoked>>
    /\ UNCHANGED nonCbVars

CbNext ==
    \/ \E t \in CbThreads : SetErrorStep(t)
    \/ CbSetMaxQueueDepth
    \/ CbInitialize
    \/ \E connected \in BOOLEAN : CbStart(connected)
    \/ CbStop
    \/ CbConnectFails

CbSpec == Init /\ [][CbNext]_vars

\* ------------------------------------------------------------ PoolSpec
\* ThreadPool: Submit, WorkerThread and Shutdown. stop_ and tasks_ are
\* read and written under queue_mutex_ only, so each locked region is one
\* step; the notify calls come after the unlock and are steps of their own.

\* A worker that tests the exit condition on stop_ alone.
WorkerExitsOnStop == stop_

\* if (stop_ && tasks_.empty()) break;
WorkerShouldExit == stop_ /\ tasks_ = <<>>

\* condition_.wait(lock, pred) with the lock taken: a worker whose
\* predicate is false sleeps until a notify; otherwise it leaves the loop
\* or takes the front task.
PoolWorkerLock(w) ==
    /\ pool_pc[w] = "top"
    /\ IF ~(stop_ \/ tasks_ /= <<>>)
       THEN /\ pool_pc' = [pool_pc EXCEPT ![w] = "waiting"]
            /\ UNCHANGED <<tasks_, pool_task>>
       ELSE IF WorkerShouldExit
       THEN /\ pool_pc' = [pool_pc EXCEPT ![w] = "exited"]
            /\ UNCHANGED <<tasks_, pool_task>>
       ELSE /\ pool_pc' = [pool_pc EXCEPT ![w] = "run"]
            /\ pool_task' = [pool_task EXCEPT ![w] = Head(tasks_)]
            /\ tasks_' = Tail(tasks_)
    /\ UNCHANGED <<stop_, pool_runs, pool_next, submit_pc, submit_ret,
                   shutdown_pc, wait_pc>>
    /\ UNCHANGED nonPoolVars

\* task(): the task runs to its end, outside the lock.
PoolWorkerRun(w) ==
    /\ pool_pc[w] = "run"
    /\ pool_runs' = [pool_runs EXCEPT ![pool_task[w]] = @ + 1]
    /\ pool_task' = [pool_task EXCEPT ![w] = 0]
    /\ pool_pc' = [pool_pc EXCEPT ![w] = "top"]
    /\ UNCHANGED <<stop_, tasks_, pool_next, submit_pc, submit_ret,
                   shutdown_pc, wait_pc>>
    /\ UNCHANGED nonPoolVars

\* Submit, the locked region: throws when stop_ is set, else queues the
\* task.
PoolSubmit ==
    /\ submit_pc = "idle"
    /\ IF stop_
       THEN /\ submit_ret' = "throw"
            /\ UNCHANGED <<tasks_, pool_next, submit_pc>>
       ELSE /\ pool_next <= MaxTasks
            /\ tasks_' = Append(tasks_, pool_next)
            /\ pool_next' = pool_next + 1
            /\ submit_pc' = "notify"
            /\ submit_ret' = "pending"
    /\ UNCHANGED <<stop_, pool_pc, pool_task, pool_runs, shutdown_pc,
                   wait_pc>>
    /\ UNCHANGED nonPoolVars

\* condition_.notify_one(); return result: one thread sleeping on
\* condition_, if there is one, wakes: a worker, or the thread inside
\* WaitForAll, which waits on the same condition variable.
PoolSubmitNotify ==
    /\ submit_pc = "notify"
    /\ \/ \E w \in PoolWorkers :
              /\ pool_pc[w] = "waiting"
              /\ pool_pc' = [pool_pc EXCEPT ![w] = "top"]
              /\ UNCHANGED wait_pc
       \/ /\ wait_pc = "waiting"
          /\ wait_pc' = "woken"
          /\ UNCHANGED pool_pc
       \/ /\ \A w \in PoolWorkers : pool_pc[w] /= "waiting"
          /\ wait_pc /= "waiting"
          /\ UNCHANGED <<pool_pc, wait_pc>>
    /\ submit_pc' = "idle"
    /\ submit_ret' = "future"
    /\ UNCHANGED <<stop_, tasks_, pool_task, pool_runs, pool_next,
                   shutdown_pc>>
    /\ UNCHANGED nonPoolVars

\* Shutdown: { lock_guard; stop_ = true; }
PoolShutdown ==
    /\ shutdown_pc = "idle"
    /\ stop_' = TRUE
    /\ shutdown_pc' = "notify"
    /\ UNCHANGED <<tasks_, pool_pc, pool_task, pool_runs, pool_next,
                   submit_pc, submit_ret, wait_pc>>
    /\ UNCHANGED nonPoolVars

\* condition_.notify_all()
PoolShutdownNotify ==
    /\ shutdown_pc = "notify"
    /\ pool_pc' = [w \in PoolWorkers |->
                      IF pool_pc[w] = "waiting" THEN "top" ELSE pool_pc[w]]
    /\ wait_pc' = IF wait_pc = "waiting" THEN "woken" ELSE wait_pc
    /\ shutdown_pc' = "join"
    /\ UNCHANGED <<stop_, tasks_, pool_task, pool_runs, pool_next,
                   submit_pc, submit_ret>>
    /\ UNCHANGED nonPoolVars

\* The joins: Shutdown goes on when every worker has left its loop, then
\* threads_.clear() and return.
PoolShutdownJoin ==
    /\ shutdown_pc = "join"
    /\ \A w \in PoolWorkers : pool_pc[w] = "exited"
    /\ pool_pc' = [w \in PoolWorkers |-> "joined"]
    /\ shutdown_pc' = "returned"
    /\ UNCHANGED <<stop_, tasks_, pool_task, pool_runs, pool_next,
                   submit_pc, submit_ret, wait_pc>>
    /\ UNCHANGED nonPoolVars

\* WaitForAll: unique_lock lock(queue_mutex_); condition_.wait(lock, pred)
\* with pred = tasks_.empty(): the call returns when the queue is empty
\* and sleeps on condition_ otherwise.
WaitForAll ==
    /\ wait_pc \in {"idle", "returned", "woken"}
    /\ wait_pc' = IF tasks_ = <<>> THEN "returned" ELSE "waiting"
    /\ UNCHANGED <<stop_, tasks_, pool_pc, pool_task, pool_runs, pool_next,
                   submit_pc, submit_ret, shutdown_pc>>
    /\ UNCHANGED nonPoolVars

PoolNext ==
    \/ \E w \in PoolWorkers : PoolWorkerLock(w)
    \/ \E w \in PoolWorkers : PoolWorkerRun(w)
    \/ PoolSubmit
    \/ PoolSubmitNotify
    \/ PoolShutdown
    \/ PoolShutdownNotify
    \/ PoolShutdownJoin

PoolSpec == Init /\ [][PoolNext]_vars

\* The pool with a thread that calls WaitForAll.  Threads that can take a
\* step eventually take it; new Submit, Shutdown and WaitForAll calls are
\* not forced.
WaitNext == PoolNext \/ WaitForAll

WaitSpec ==
    /\ Init
    /\ [][WaitNext]_vars
    /\ \A w \in PoolWorkers : WF_vars(PoolWorkerLock(w) \/ PoolWorkerRun(w))
    /\ WF_vars(PoolSubmitNotify \/ PoolShutdownNotify \/ PoolShutdownJoin)
    /\ WF_vars(WaitForAll /\ wait_pc = "woken")

\* ------------------------------------------------------------- BufSpec
\* SimpleBuffer::Clone and SimpleBuffer::CopyFrom on a frame made by
\* CreateVideoFrame, whose capacity is its frame size.

\* FrameInfo::GetFrameSize
GetFrameSize(info) ==
    CASE info.format \in {"RGB24", "BGR24"} -> info.width * info.height * 3
      [] info.format \in {"RGBA32", "BGRA32"} -> info.width * info.height * 4
      [] info.format \in {"YUV420P", "NV12", "NV21"} ->
             (info.width * info.height * 3) \div 2
      [] info.format \in {"YUYV", "UYVY"} -> info.width * info.height * 2
      [] OTHER -> 0

\* SimpleBuffer::GetPlaneCount
GetPlaneCount(info) ==
    CASE info.format = "YUV420P" -> 3
      [] info.format \in {"NV12", "NV21"} -> 2
      [] OTHER -> 1

\* SimpleBuffer::GetPlaneData as an offset into data_; -1 for nullptr.
GetPlaneData(info, plane) ==
    CASE info.format \in {"RGB24", "BGR24", "RGBA32", "BGRA32", "YUYV",
                          "UYVY"} ->
             IF plane = 0 THEN 0 ELSE -1
      [] info.format = "YUV420P" ->
             IF plane = 0 THEN 0
             ELSE IF plane = 1 THEN info.width * info.height
             ELSE IF plane = 2 THEN (info.width * info.height * 5) \div 4
             ELSE -1
      [] info.format \in {"NV12", "NV21"} ->
             IF plane = 0 THEN 0
             ELSE IF plane = 1 THEN info.width * info.height
             ELSE -1
      [] OTHER -> -1

\* SimpleBuffer::GetPlaneSize; size_ is the frame size.
GetPlaneSize(info, plane) ==
    CASE info.format = "YUV420P" ->
             IF plane = 0 THEN info.width * info.height
             ELSE IF plane \in {1, 2} THEN (info.width * info.height) \div 4
             ELSE 0
      [] info.format \in {"NV12", "NV21"} ->
             IF plane = 0 THEN info.width * info.height
             ELSE IF plane = 1 THEN (info.width * info.height) \div 2
             ELSE 0
      [] OTHER -> IF plane = 0 THEN GetFrameSize(info) ELSE 0

\* Byte i (from 1) of the original frame's data.
SourceByte(i) == (i % 2) + 1

\* What aligned_alloc leaves in memory it has not been asked to clear.
UninitializedBytes == {0, 1, 2}

\* The memcpy loop of CopyFrom: a byte of dst is overwritten when it lies
\* in one of the planes that are copied.
CopyPlanes(dst, info) ==
    [i \in 1..Len(dst) |->
        IF \E plane \in 0..(GetPlaneCount(info) - 1) :
               /\ GetPlaneData(info, plane) >= 0
               /\ GetPlaneSize(info, plane) > 0
               /\ i > GetPlaneData(info, plane)
               /\ i <= GetPlaneData(info, plane) + GetPlaneSize(info, plane)
        THEN SourceByte(i)
        ELSE dst[i]]

\* Clone: a new SimpleBuffer of the same capacity, whose memory holds
\* whatever it held, then CopyFrom(*this).
BufClone(garbage) ==
    /\ copy_pc = "frame"
    /\ clone_info' = frame_info_
    /\ clone_data' = CopyPlanes([i \in 1..GetFrameSize(frame_info_) |-> garbage],
                                frame_info_)
    /\ copy_pc' = "cloned"
    /\ copy_ret' = "true"
    /\ UNCHANGED frame_info_
    /\ UNCHANGED nonBufVars

\* clone->CopyFrom(original)
BufCopyFrom ==
    /\ copy_pc = "cloned"
    /\ IF GetFrameSize(frame_info_) > Len(clone_data)
       THEN /\ copy_ret' = "false"
            /\ UNCHANGED <<clone_info, clone_data>>
       ELSE /\ clone_info' = frame_info_
            /\ clone_data' = CopyPlanes(clone_data, frame_info_)
            /\ copy_ret' = "true"
    /\ copy_pc' = "copied"
    /\ UNCHANGED frame_info_
    /\ UNCHANGED nonBufVars

BufNext ==
    \/ \E garbage \in UninitializedBytes : BufClone(garbage)
    \/ BufCopyFrom

\* Any frame, with the rest of the program as constructed.
BufSpecInit ==
    /\ SinkInit /\ HeapInit /\ LifeInit /\ PipeInit /\ RegInit /\ CbInit
    /\ PoolInit /\ AnyFrame /\ StatsInit

BufSpec == BufSpecInit /\ [][BufNext]_vars

\* ------------------------------------------------------------ StatsSpec
\* The per-block data (stats_, last_error_, params_) of a running,
\* non-blocking sink and the locks held while it is touched.  A thread's
\* st_pc names the statement it is executing; a lock taken by one action
\* is held until the action that releases it.

\* The accessors of BaseBlock, each one locked block under mutex_.
Accessors == {"GetStats", "ResetStats", "GetLastError", "SetError",
              "GetParameter", "SetParameter"}

\* What the statement at pc reads ("r") and writes ("w"): queue_depth is
\* stats_.queue_depth, counters the other fields of stats_.
Accessing(pc) ==
    CASE pc = "pf_depth" -> {<<"queue_depth", "w">>}
      [] pc = "w_depth" -> {<<"queue_depth", "w">>}
      [] pc = "UpdateStats" -> {<<"counters", "w">>}
      [] pc = "GetStats" -> {<<"counters", "r">>, <<"queue_depth", "r">>}
      [] pc = "ResetStats" -> {<<"counters", "w">>, <<"queue_depth", "w">>}
      [] pc = "GetLastError" -> {<<"last_error", "r">>}
      [] pc = "SetError" -> {<<"last_error", "w">>}
      [] pc = "GetParameter" -> {<<"params", "r">>}
      [] pc = "SetParameter" -> {<<"params", "w">>}
      [] OTHER -> {}

\* Another thread is writing stats_.queue_depth.
DepthWriteInProgress(t) ==
    \E u \in StatsThreads \ {t} :
        <<"queue_depth", "w">> \in Accessing(st_pc[u])

\* ProcessFrame: unique_lock lock(queue_mutex_); a full queue loses its
\* oldest frame and UpdateStats(false, 0, true) is called, else the frame
\* is pushed and the thread reaches stats_.queue_depth = size().
StatsPFLock ==
    /\ st_pc["sub"] = "idle"
    /\ st_queue_mutex = "free"
    /\ st_queue_mutex' = "sub"
    /\ IF st_queue_size >= MaxQueued
       THEN /\ st_queue_size' = st_queue_size - 1
            /\ st_pc' = [st_pc EXCEPT !["sub"] = "pf_update"]
       ELSE /\ st_queue_size' = st_queue_size + 1
            /\ st_pc' = [st_pc EXCEPT !["sub"] = "pf_depth"]
    /\ UNCHANGED <<mutex_, st_queue_depth, st_copy>>
    /\ UNCHANGED nonStatsVars

\* UpdateStats: lock_guard lock(mutex_).
StatsUpdateLock(t) ==
    /\ st_pc[t] \in {"pf_update", "w_process"}
    /\ mutex_ = "free"
    /\ mutex_' = t
    /\ st_pc' = [st_pc EXCEPT ![t] = "UpdateStats"]
    /\ UNCHANGED <<st_queue_mutex, st_queue_size, st_queue_depth, st_copy>>
    /\ UNCHANGED nonStatsVars

\* UpdateStats returns.  In ProcessFrame the push follows; in the worker
\* the iteration ends.
StatsUpdateDone(t) ==
    /\ st_pc[t] = "UpdateStats"
    /\ mutex_' = "free"
    /\ IF t = "sub"
       THEN /\ st_queue_size' = st_queue_size + 1
            /\ st_pc' = [st_pc EXCEPT ![t] = "pf_depth"]
       ELSE /\ st_queue_size' = st_queue_size
            /\ st_pc' = [st_pc EXCEPT ![t] = "idle"]
    /\ UNCHANGED <<st_queue_mutex, st_queue_depth, st_copy>>
    /\ UNCHANGED nonStatsVars

\* stats_.queue_depth = frame_queue_.size() is done; notify_one; return
\* true, or the end of the worker's locked block: queue_mutex_ is released.
StatsDepthDone(t) ==
    /\ st_pc[t] \in {"pf_depth", "w_depth"}
    /\ st_queue_depth' = st_queue_size
    /\ st_queue_mutex' = "free"
    /\ st_pc' = [st_pc EXCEPT ![t] = IF t = "sub" THEN "idle"
                                      ELSE "w_process"]
    /\ UNCHANGED <<mutex_, st_queue_size, st_copy>>
    /\ UNCHANGED nonStatsVars

\* WorkerThread: unique_lock lock(queue_mutex_); the queue is not empty;
\* front, pop, and the thread reaches stats_.queue_depth = size().
StatsWLock ==
    /\ st_pc["worker"] = "idle"
    /\ st_queue_mutex = "free"
    /\ st_queue_size > 0
    /\ st_queue_mutex' = "worker"
    /\ st_queue_size' = st_queue_size - 1
    /\ st_pc' = [st_pc EXCEPT !["worker"] = "w_depth"]
    /\ UNCHANGED <<mutex_, st_queue_depth, st_copy>>
    /\ UNCHANGED nonStatsVars

\* An accessor of BaseBlock is called: lock_guard lock(mutex_).
StatsAccessorLock(op) ==
    /\ st_pc["reader"] = "idle"
    /\ mutex_ = "free"
    /\ mutex_' = "reader"
    /\ st_pc' = [st_pc EXCEPT !["reader"] = op]
    /\ UNCHANGED <<st_queue_mutex, st_queue_size, st_queue_depth, st_copy>>
    /\ UNCHANGED nonStatsVars

\* The accessor returns.  GetStats returns its copy of stats_: reading
\* queue_depth while another thread writes it is a data race, and the copy
\* can then hold any value.  ResetStats has zeroed stats_.
StatsAccessorDone(copied) ==
    /\ st_pc["reader"] \in Accessors
    /\ mutex_' = "free"
    /\ st_pc' = [st_pc EXCEPT !["reader"] = "idle"]
    /\ IF st_pc["reader"] = "GetStats"
       THEN st_copy' = IF DepthWriteInProgress("reader") THEN copied
                       ELSE st_queue_depth
       ELSE st_copy' = st_copy
    /\ st_queue_depth' = IF st_pc["reader"] = "ResetStats" THEN 0
                         ELSE st_queue_depth
    /\ UNCHANGED <<st_queue_mutex, st_queue_size>>
    /\ UNCHANGED nonStatsVars

StatsNext ==
    \/ StatsPFLock
    \/ StatsWLock
    \/ \E t \in {"sub", "worker"} : StatsUpdateLock(t)
    \/ \E t \in {"sub", "worker"} : StatsUpdateDone(t)
    \/ \E t \in {"sub", "worker"} : StatsDepthDone(t)
    \/ \E op \in Accessors : StatsAccessorLock(op)
    \/ \E copied \in 0..MaxQueued : StatsAccessorDone(copied)

StatsSpec == Init /\ [][StatsNext]_vars

\* =============================================================== properties
\* What the sink's threads hold of frame f.
Held(f) == f = sub_frame \/ f \in Range(frame_queue) \/ f = worker_frame

\* A Stop or Shutdown call of the sink returns in this step.
StopReturns ==
    /\ Stop \/ Shutdown \/ StopDrain
    /\ ctl_pc' = "idle"
    /\ ctl_op' \in {"Stop", "Shutdown"}

\* The worker thread exists and has not finished WorkerThread().
WorkerRunning == worker_pc \notin {"none", "w_exited"}

\* C1: in every reachable state the number of queued frames is at most the
\* configured maximum queue depth.
C1_QueueDepthBounded == Len(frame_queue) <= max_queue_depth

\* C3: once Stop has returned (the sink is Stopped and no call is running)
\* frames_processed + frames_dropped equals the number of accepted frames.
C3_StopAccounting ==
    (state = "STOPPED" /\ ctl_pc = "idle")
        => sink_processed + sink_dropped = accepted

\* C4: a zero-copy frame's recycler has run at most once, it has run exactly
\* if the intrusive count is 0, never while the producer, the queue or the
\* worker holds the frame, and it has run once nobody holds it any more.
C4_RecycledExactlyOnce ==
    \A f \in FrameIds :
        f < next_id =>
            /\ frames[f].recycled <= 1
            /\ (frames[f].recycled = 1) <=> (frames[f].ref = 0)
            /\ frames[f].ref \in {0, 1}
            /\ Held(f) => frames[f].recycled = 0
            /\ ~Held(f) => frames[f].recycled = 1

\* C4 witness: a frame went through the queue and the worker's hook and was
\* recycled after the last holder dropped it.
C4_Witness ==
    /\ delivered_last /= 0
    /\ sink_processed > 0
    /\ frames[delivered_last].recycled = 1

\* C6: when a Stop (or Shutdown) call returns, the worker thread the sink
\* created is not running, whatever state the sink was in at the call.
C6_NoThreadAfterStop == [][StopReturns => ~WorkerRunning']_vars

\* C7: under fair scheduling a Stop call that has started stopping a
\* Running sink eventually returns.
C7_StopReturns == (ctl_pc = "stop_flag") ~> (ctl_pc = "idle")

\* C8: once Stop has returned, the producer is not blocked in ProcessFrame
\* waiting for space.
C8_NoBlockedSubmitAfterStop ==
    (state = "STOPPED" /\ ctl_pc = "idle") => sub_pc /= "pf_blocked"

\* The state changes the lifecycle allows.
LegalTransition(a, b) ==
    \/ <<a, b>> \in {<<"UNINITIALIZED", "INITIALIZED">>,
                     <<"STOPPED", "INITIALIZED">>,
                     <<"INITIALIZED", "STARTING">>,
                     <<"STOPPED", "STARTING">>,
                     <<"STARTING", "RUNNING">>,
                     <<"RUNNING", "STOPPING">>,
                     <<"STOPPING", "STOPPED">>}
    \/ b = "ERROR"
    \/ (b = "UNINITIALIZED" /\ ctl_op = "Shutdown")

\* C9: every change of the block's state is a legal lifecycle transition.
C9_LegalTransitions == [][state' /= state => LegalTransition(state, state')]_vars

\* C2: the sequence numbers of the frames handed to ProcessFrameImpl are
\* strictly increasing.
C2_SequenceIncreasing ==
    [][(delivered_last' /= delivered_last /\ delivered_last /= 0)
          => frames'[delivered_last'].seq > frames[delivered_last].seq]_vars

\* C5: a heap frame made by CreateVideoFrame is reclaimed at most once, and
\* only when no handle to it is held any more.
C5_HeapReclaimedOnce ==
    \A h \in HeapIds :
        /\ heap[h].freed <= 1
        /\ heap[h].freed = 1 => heap[h].use = 0

\* C10: a Stop call on a source that is not Running returns true and leaves
\* the state of the source as it was at the call.
C10_StopWhenNotRunning ==
    \A k \in SourceKinds :
        (life_pc = "idle" /\ life_op = <<k, "Stop">> /\ life_pre /= "RUNNING")
            => (life_ret = "true" /\ blk_state[k] = life_pre)

\* C11: a frame is put into the sink's queue only while the sink is Running.
C11_EnqueueOnlyWhenRunning ==
    [][accepted' /= accepted => state = "RUNNING"]_vars

\* C12: ProcessFrame reaching a non-blocking sink's queue that holds exactly
\* max_queue_depth frames removes the head, appends the new frame, counts
\* one dropped frame, leaves the length at the maximum and returns true.
C12_DropOldest ==
    [][(PFLock /\ ~is_blocking /\ Len(frame_queue) = max_queue_depth)
          => /\ frame_queue' = Append(Tail(frame_queue), sub_frame)
             /\ sink_dropped' = sink_dropped + 1
             /\ Len(frame_queue') = max_queue_depth
             /\ sub_ret' = "true"]_vars

\* C12 witness: the worker has taken nothing, one more frame than the queue
\* can hold was accepted, one was dropped and the newest is at the tail.
C12_Witness ==
    /\ ~is_blocking
    /\ max_queue_depth = 2
    /\ delivered_last = 0
    /\ accepted = 3
    /\ sink_dropped = 1
    /\ frame_queue = <<2, 3>>
    /\ sub_ret = "true"

\* C13: the queue holds accepted frames in the order they were accepted,
\* all newer than the last frame handed to ProcessFrameImpl, and the worker
\* always takes the head: what it sees is a subsequence of what was accepted.
C13_FifoOrder ==
    /\ [](/\ \A i \in 1..Len(frame_queue) : frame_queue[i] > delivered_last
          /\ \A i, j \in 1..Len(frame_queue) :
                 i < j => frame_queue[i] < frame_queue[j])
    /\ [][delivered_last' /= delivered_last
             => /\ delivered_last' = Head(frame_queue)
                /\ frame_queue' = Tail(frame_queue)]_vars

\* C13 witness: after a dropped frame the worker was handed a later frame
\* that had waited in the queue behind another one.
C13_Witness ==
    /\ sink_dropped > 0
    /\ delivered_last = MaxFrames
    /\ sink_processed >= 1

\* The classes in the order Stop visits them.
StopRank(b) == CASE blocks_[b] = "source" -> 1
                 [] blocks_[b] = "other" -> 2
                 [] OTHER -> 3

\* C14: in PipelineManager::Shutdown a source's Shutdown is called only
\* after the Shutdown of every sink (every source is connected to every
\* sink of the configuration).
C14_SinksShutDownFirst ==
    [][(PMShutdownBlock /\ pm_todo /= <<>>
            /\ blocks_[Head(pm_todo)] = "source")
          => Classified("sink") \subseteq Range(pm_calls)]_vars

\* C15: in PipelineManager::Start a block that is not a sink is started
\* only after every sink was started and is Running, and a block that is
\* not a source only before every source.
C15_StartOrder ==
    [][(pm_pc = "start" /\ pm_todo /= <<>>)
          => /\ blocks_[Head(pm_todo)] /= "sink"
                  => \A k \in Classified("sink") :
                         k \in Range(pm_calls) /\ pblk_state[k] = "RUNNING"
             /\ blocks_[Head(pm_todo)] /= "source"
                  => Range(pm_calls) \cap Classified("source") = {}]_vars

\* C15 witness: Start has returned true after starting the sink with the
\* last name first and the source with the first name last.
C15_Witness ==
    /\ pm_op = "Start" /\ pm_pc = "idle" /\ pm_ret = "true" /\ is_running_
    /\ blocks_[1] = "source" /\ blocks_[MaxBlocks] = "sink"
    /\ Len(pm_calls) = MaxBlocks
    /\ pm_calls[1] = MaxBlocks /\ pm_calls[MaxBlocks] = 1

\* C16: while Stop runs on a running pipeline it calls Stop on sources,
\* then others, then sinks, on no block twice; when it has returned every
\* block was called and the running flag is false.
C16_StopOrder ==
    (pm_op = "Stop" /\ pm_pc \in {"stop", "idle"})
        => /\ \A i, j \in 1..Len(pm_calls) :
                  i < j => /\ pm_calls[i] /= pm_calls[j]
                           /\ StopRank(pm_calls[i]) <= StopRank(pm_calls[j])
           /\ pm_pc = "idle"
                  => /\ ~is_running_
                     /\ pm_ret = "true"
                     /\ pm_calls /= <<>> => Range(pm_calls) = InMap

\* C16 witness: Stop has returned after stopping a source with the last
\* name first and a sink with the first name last.
C16_Witness ==
    /\ pm_op = "Stop" /\ pm_pc = "idle"
    /\ blocks_[1] = "sink" /\ blocks_[MaxBlocks] = "source"
    /\ Len(pm_calls) = MaxBlocks
    /\ pm_calls[1] = MaxBlocks /\ pm_calls[MaxBlocks] = 1

\* C17: a block whose Start fails ends PipelineManager::Start at once:
\* false is returned, last_error names the block, the running flag is
\* false and no other block changes state; the running flag is set only
\* when Start was called on every block of the map and all are Running.
C17_StartFailure ==
    /\ [][(pm_pc = "start" /\ pm_todo /= <<>>
              /\ pblk_state'[Head(pm_todo)] /= "RUNNING")
            => /\ pm_pc' = "idle"
               /\ pm_ret' = "false"
               /\ pm_last_error' = <<"start", Head(pm_todo)>>
               /\ ~is_running_'
               /\ \A b \in BlockNames \ {Head(pm_todo)} :
                      pblk_state'[b] = pblk_state[b]]_vars
    /\ [][(is_running_' /\ ~is_running_)
            => /\ pm_ret' = "true"
               /\ Range(pm_calls) = InMap
               /\ \A b \in InMap : pblk_state[b] = "RUNNING"]_vars

\* C17 witness: Start has returned false on its last block, with the blocks
\* started before it still Running and the running flag false.
C17_Witness ==
    /\ pm_op = "Start" /\ pm_pc = "idle" /\ pm_ret = "false"
    /\ ~is_running_
    /\ Len(pm_calls) = MaxBlocks
    /\ pm_last_error = <<"start", pm_calls[MaxBlocks]>>
    /\ \A i \in 1..(MaxBlocks - 1) : pblk_state[pm_calls[i]] = "RUNNING"

\* C18: BlockRegistry::CreateBlock does not hold the registry mutex while
\* the factory runs: no thread is inside a factory as the owner of the
\* mutex, so a factory that calls the registry never blocks on its own
\* lock.
C18_FactoryRunsUnlocked ==
    \A t \in RegThreads :
        /\ reg_pc[t] = "factory" => reg_mutex /= t
        /\ reg_pc[t] /= "deadlocked"

\* What the sequence of changes says a type maps to: the factory of the
\* last RegisterBlock of the type that no UnregisterBlock of the type and
\* no Clear follows, "none" without one.
RECURSIVE LatestFactory(_, _)
LatestFactory(h, type) ==
    IF h = <<>>
    THEN "none"
    ELSE LET e == h[Len(h)]
         IN  IF e[1] = "Clear"
             THEN "none"
             ELSE IF e[2] = type
                  THEN IF e[1] = "Register" THEN e[3] ELSE "none"
                  ELSE LatestFactory(SubSeq(h, 1, Len(h) - 1), type)

\* How often a type occurs in a list of types.
Occurrences(types, type) ==
    Cardinality({i \in 1..Len(types) : types[i] = type})

\* C19: each type maps to the factory of its most recent RegisterBlock
\* that no UnregisterBlock or Clear follows: CreateBlock returns nullptr
\* for a type without one, a block that CreateBlock returns comes from
\* that factory and from no earlier one, and GetRegisteredTypes lists
\* each registered type exactly once and no other type.
C19_LatestRegistrationWins ==
    [][\A t \in RegThreads :
         /\ \A type \in TypeNames :
                (CreateBlock(t, type)
                 /\ LatestFactory(reg_history, type) = "none")
                => reg_result' = [op |-> "CreateBlock", type |-> type,
                                     value |-> "null", types |-> <<>>]
         /\ FactoryReturn(t, "block")
            => /\ reg_result'.op = "CreateBlock"
               /\ reg_result'.value
                      = LatestFactory(reg_history, reg_arg[t][1])
         /\ GetRegisteredTypes(t)
            => \A type \in TypeNames :
                   Occurrences(reg_result'.types, type)
                      = IF LatestFactory(reg_history, type) = "none"
                        THEN 0 ELSE 1]_vars

\* After RegisterBlock(1, A) and RegisterBlock(1, B), CreateBlock(1) has
\* returned a block from B.
C19_Witness ==
    /\ reg_history = <<<<"Register", 1, "A">>, <<"Register", 1, "B">>>>
    /\ factories_ = <<<<1, "B">>>>
    /\ reg_result = [op |-> "CreateBlock", type |-> 1,
                     value |-> "B", types |-> <<>>]

\* C20: a block in the Error state becomes startable again, that is,
\* reaches a state from which Start is accepted, only through Shutdown;
\* no other operation, Initialize and Stop included, takes it out of
\* Error, so every Start until then returns false and creates no thread.
C20_ErrorUntilShutdown ==
    [][(state = "ERROR" /\ state' \in {"INITIALIZED", "STOPPED"})
       => ctl_op' = "Shutdown"]_vars

\* C21: when Shutdown returns, from whatever state it was called in, the
\* block is in the Uninitialized state.
C21_ShutdownUninitializes ==
    [][((Shutdown \/ (StopDrain /\ ctl_op = "Shutdown"))
        /\ ctl_pc' = "idle")
       => state' = "UNINITIALIZED"]_vars

\* C22: an operation of the sink that has returned false, ProcessFrame or
\* a call of the control thread, has left a non-empty last_error.
C22_FalseSetsLastError ==
    (sub_ret = "false" \/ ctl_ret = "false") => last_error /= ""

\* The threads that are inside SetError with message m.
Reporting(m) ==
    {t \in CbThreads : cb_pc[t] \in {"store", "state", "callback"}
                       /\ cb_error[t] = m}

C24_PerFrameFailureKeepsRunning ==
    [][((\E o \in HookOutcomes \ {"ok"} : WProcess(o)) /\ state = "RUNNING")
       => /\ sink_dropped' = sink_dropped + 1
          /\ state' = "RUNNING"
          /\ worker_pc' = "w_loop"]_vars

\* C25: the first frame a source delivers after a Start has
\* sequence_number 1, also when the source ran and was stopped before.
C25_SequenceRestartsAtOne ==
    [][(GenEmit /\ tp_sequence = 0) => tp_sequence' = 1]_vars

\* C26: SetMaxQueueDepth with a depth of 0 or above 1000 returns false
\* and leaves the configured depth, the queue and the lifecycle state of
\* the sink as they were, in whatever state the sink is.
C26_RejectedDepthChangesNothing ==
    [][\A d \in DepthInputs :
         (SetMaxQueueDepth(d) /\ ~ValidDepth(d))
         => /\ ctl_ret' = "false"
            /\ max_queue_depth' = max_queue_depth
            /\ frame_queue' = frame_queue
            /\ state' = state]_vars

\* C27: after PipelineManager::Initialize has returned false because a
\* block could not be created, a block's Initialize failed or a connection
\* could not be made, last_error is set and the block map is empty.
C27_FailedInitializeClearsMap ==
    (/\ pm_op = "Initialize"
     /\ pm_pc = "idle"
     /\ pm_ret = "false"
     /\ pm_last_error[1] \in {"create", "initialize", "connect"})
    => InMap = {}

\* C28: once Stop has set the stop flag of a source, its producer thread
\* calls EmitFrame no more, and the source is Stopped only when the
\* producer thread has ended.
C28_NoEmitAfterStopRequested ==
    /\ [][GenEmit => ~stop_generator_]_vars
    /\ [](blk_state["TestPatternSource"] = "STOPPED" => ~generator_thread_)

\* C29: no task ever runs twice; a Submit made once the stop flag is set
\* is rejected and queues nothing; and when Shutdown has returned, every
\* task that Submit accepted has run to completion exactly once, nothing
\* is left in the queue, and every worker thread has exited.
C29_ShutdownDrains ==
    /\ [](\A k \in TaskIds : pool_runs[k] <= 1)
    /\ [][(PoolSubmit /\ stop_)
          => (submit_ret' = "throw" /\ tasks_' = tasks_
              /\ pool_next' = pool_next)]_vars
    /\ [](shutdown_pc = "returned"
          => /\ \A k \in TaskIds : pool_runs[k] = IF k < pool_next THEN 1 ELSE 0
             /\ tasks_ = <<>>
             /\ \A w \in PoolWorkers : pool_pc[w] = "joined")

\* Shutdown has returned after every task was accepted, and a Submit made
\* after it was rejected.
C29_Witness ==
    /\ shutdown_pc = "returned"
    /\ pool_next = MaxTasks + 1
    /\ \A k \in TaskIds : pool_runs[k] = 1
    /\ submit_ret = "throw"

\* C30: for every supported format and every size, the clone of a frame,
\* after copy_from with the original, has the original's FrameInfo and
\* the original's bytes in every position up to its frame size.
C30_CloneCopyEqualsOriginal ==
    copy_pc = "copied"
    => /\ copy_ret = "true"
       /\ clone_info = frame_info_
       /\ \A i \in 1..GetFrameSize(frame_info_) :
              clone_data[i] = SourceByte(i)

\* C31: the worker thread leaves WorkerThread only when the stop flag is set
\* and the queue is empty, so that every frame queued when Stop is requested
\* reaches ProcessFrameImpl first.
C31_WorkerExitsOnEmptyQueue ==
    [][(worker_pc' = "w_exited" /\ worker_pc /= "w_exited")
          => (stop_worker /\ frame_queue = <<>>)]_vars

\* C32: from the return of Stop until the next Start (the sink is Stopped
\* and no call is running) the queue is empty and the worker holds no frame,
\* whatever the ProcessFrame calls in progress do.
C32_QueueEmptyAfterStop ==
    (state = "STOPPED" /\ ctl_pc = "idle")
        => (frame_queue = <<>> /\ worker_frame = 0)

\* C33: a frame the rate gate rejects is counted as dropped, not as
\* processed, and the callback is not entered; a frame the gate lets through
\* is stamped frames_processed + 1 on entering the callback, with the count
\* unchanged; frames_processed grows, by one, exactly when the callback
\* returns, and otherwise changes only by a reset to zero.
C33_EmitFrameCounts ==
    [][/\ EmitGateReject
           => /\ src_dropped' = src_dropped + 1
              /\ src_processed' = src_processed
              /\ sub_pc' = "idle"
       /\ EmitStamp
           => /\ frames'[sub_frame'].seq = src_processed + 1
              /\ src_processed' = src_processed
              /\ src_dropped' = src_dropped
              /\ sub_pc' = "pf_state"
       /\ (sub_pc = "emit_ret" /\ sub_pc' = "idle")
           => src_processed' = src_processed + 1
       /\ src_processed' /= src_processed
           => \/ sub_pc = "emit_ret" /\ sub_pc' = "idle"
              \/ src_processed' = 0 /\ sub_pc' = sub_pc]_vars

\* C33 witness: one callback has returned, one frame was rejected by the
\* gate, and another frame, stamped 2, is inside the callback.
C33_Witness ==
    /\ src_processed = 1
    /\ src_dropped = 1
    /\ sub_frame /= 0
    /\ frames[sub_frame].seq = 2
    /\ sub_pc \in {"pf_state", "pf_lock"}

\* C34: when Start creates the worker thread, worker_thread_ holds no
\* thread that was not joined, so the sink never has a second worker and no
\* live handle is overwritten.
C34_OneWorkerThread == [][StartThread => ~worker_thread]_vars

\* C35: two threads never touch the same field of a block's stats_,
\* last_error_ or params_ at the same time when one of them writes it: each
\* such access is made under mutex_, which only one thread holds.
C35_StatsUnderMutex ==
    \A t, u \in StatsThreads :
        t /= u =>
            \A x \in Accessing(st_pc[t]), y \in Accessing(st_pc[u]) :
                ~(x[1] = y[1] /\ "w" \in {x[2], y[2]})

\* C36: when a running block of the pipeline reports an error through its
\* error callback, the manager's last error becomes that block's error, and
\* no other block changes state.
C36_BlockErrorRecorded ==
    [][\A b \in BlockNames :
          PMBlockError(b)
              => /\ pm_last_error' = <<"block", b>>
                 /\ \A c \in BlockNames \ {b} :
                        pblk_state'[c] = pblk_state[c]]_vars

\* C37: when the sink's Initialize returns, it returns false and leaves the
\* sink in Error if a step of the call recorded an error (SetError was
\* called, so the error callback ran), and returns true and leaves the sink
\* Initialized otherwise.
C37_InitializeReportsError ==
    [][InitializeDone
          => IF init_error
             THEN ctl_ret' = "false" /\ state' = "ERROR"
             ELSE ctl_ret' = "true" /\ state' = "INITIALIZED"]_vars

\* Every task Submit accepted has run to its end.
AllTasksFinished ==
    /\ submit_pc = "idle"
    /\ \A k \in TaskIds : k < pool_next => pool_runs[k] = 1

\* C38: when WaitForAll returns, no submitted task is queued or running.
C38_WaitForAllReturnsWhenIdle ==
    [][(wait_pc' = "returned" /\ wait_pc /= "returned")
          => (tasks_ = <<>> /\ \A w \in PoolWorkers : pool_pc[w] /= "run")]_vars

\* C38: a WaitForAll call in progress returns once every submitted task has
\* finished.
C38_WaitForAllReturns ==
    (wait_pc \in {"waiting", "woken"} /\ AllTasksFinished)
        ~> (wait_pc = "returned")

\* C39: when Shutdown returns, the pipeline is not running and the block
\* map is empty, whatever Start calls other threads made meanwhile.
C39_ShutdownAtomic ==
    [][(pm_op = "Shutdown" /\ pm_pc /= "idle" /\ pm_pc' = "idle")
          => (~is_running_' /\ \A b \in BlockNames : blocks_'[b] = "absent")]_vars

\* C40: when PipelineManager::Stop returns, no block of the map is Running,
\* also when the Start before it failed after starting some blocks.
C40_NothingRunningAfterStop ==
    [][(pm_op' = "Stop" /\ pm_pc' = "idle" /\ pm_ret' = "true"
            /\ (pm_pc /= "idle" \/ PMStop))
          => \A b \in InMap : pblk_state'[b] /= "RUNNING"]_vars

====
